---- MODULE Spec2Model ----
(***************************************************************************)
(* Orchestration core of the narrated-demo backend.                        *)
(*                                                                         *)
(*   Spec           DemoRunner.execute: dependency probe, Playwright       *)
(*                  capture with per-action retries, transcode, dry-run    *)
(*                  fallback, fail-fast and the result record              *)
(*                  (backend/app/demo_runner/runner.py).                   *)
(*   SpecRetry      the same machine started on one action whose retries   *)
(*                  range over everything the validator lets through.      *)
(*   SpecValidator  parse_action_events                                    *)
(*                  (backend/app/demo_runner/validator.py).                *)
(***************************************************************************)
EXTENDS Integers, Sequences, FiniteSets, TLC

(***************************************************************************)
(* Bounds of the model.                                                    *)
(***************************************************************************)
\* longest action list handed to DemoRunner.execute
MaxRunActions == 2
\* longest timeline.action_events list handed to parse_action_events
MaxActions == 3

(***************************************************************************)
(* Program constants.                                                      *)
(***************************************************************************)
MIN_ACTION_TIMEOUT_MS == 100
MAX_ACTION_TIMEOUT_MS == 120000
DEFAULT_ACTION_TIMEOUT_MS == 10000
MIN_ACTION_RETRIES == 0
MAX_ACTION_RETRIES == 3
DEFAULT_ACTION_RETRIES == 1
MAX_WAIT_MS == 120000
SUPPORTED_ACTIONS == {"goto", "click", "fill", "press", "wait"}
PLAYWRIGHT_OPTIONAL_MODE == "playwright_optional"
PLAYWRIGHT_REQUIRED_MODE == "playwright_required"

VARIABLES
    \* ---- DemoRunner (runner.py) ----
    execution_mode,     \* self.execution_mode
    actions,            \* the argument of execute(actions)
    pc,                 \* position inside execute
    dependency_status,  \* [ok, error] of probe_playwright_dependencies / line 514
    dependency_error,   \* local dependency_error of execute
    runtime_error,      \* local runtime_error of execute
    used_playwright,    \* local used_playwright of execute
    executions,         \* self._executions
    attempt_logs,       \* attempt_logs of the _execute_action_with_retry in progress
    raw_demo,           \* what artifacts/raw_demo.mp4 holds on disk
    stage_timings_ms,   \* the keys of stage_timings_ms set so far
    result,             \* the DemoRunResult returned (NoResult before)
    \* ---- parse_action_events (validator.py) ----
    raw_actions,        \* timeline.get("action_events")
    idx,                \* loop index of enumerate(raw_actions)
    raw,                \* the entry the loop read last
    parsed,             \* parsed
    seen_action_ids,    \* seen_action_ids
    vpc,                \* "loop" | "returned" | "raised" | "crashed"
    verror,             \* the DemoActionValidationError raised
    vresult             \* the list returned

VARIABLES
    \* ---- append_render_history / append_demo_run (storage.py) ----
    proj,               \* the in-memory project: its "renders" and "demo" parts
    call_site,          \* what the caller of each append passes: limit and ids
    appended            \* the records the append calls returned, in call order

VARIABLES
    \* ---- run_tts_only_pipeline and the tts/preview endpoint ----
    disk,               \* the project document on disk (project.json)
    tts_endpoint,       \* the endpoint the profiles resolve to ("" when none is set)
    timeline_segments,  \* the segments _timeline_to_segments yields for the project
    tts_cache,          \* the files of cache/tts and cache/tts_preview
    requests,           \* the cache files asked for by the requests that returned
    renders_started,    \* how many renders have started
    previews_made,      \* how many preview requests have been made
    rendered,           \* whether a render has completed
    tpc,                \* "idle" | "segments": where the render in progress is
    seg_idx,            \* how many segments the loop has processed
    seg_tts,            \* seg["tts"] of the processed segments
    cache_hits,         \* cache_hits
    generated,          \* generated
    response            \* what the last finished render or preview returned

VARIABLES
    \* ---- the writers of one project.json (unified.py, jobs.py, tts_only.py, main.py) ----
    store,              \* the project document on disk
    jobs,               \* the writers: what each is, where it is, what it holds
    completed           \* the ids of the records saved, in the order their runs completed

VARIABLES
    \* ---- save_project / load_project on the files of one project (utils.py, storage.py) ----
    fs_names,           \* which file each of project.json and project.json.tmp names
    fs_files,           \* the content of each file
    savers,             \* the save_project calls: where each is, what it writes
    loaded              \* what the load_project calls have read

VARIABLES
    \* ---- one call of a function ----
    call,               \* the function called and its arguments
    ret                 \* what it returned

runner_vars == <<execution_mode, actions, pc, dependency_status, dependency_error,
                 runtime_error, used_playwright, executions, attempt_logs,
                 raw_demo, stage_timings_ms, result>>
validator_vars == <<raw_actions, idx, raw, parsed, seen_action_ids, vpc, verror, vresult>>
history_vars == <<proj, call_site, appended>>
tts_vars == <<disk, tts_endpoint, timeline_segments, tts_cache, requests, renders_started,
              previews_made, rendered, tpc, seg_idx, seg_tts, cache_hits, generated, response>>
store_vars == <<store, jobs, completed>>
fs_vars == <<fs_names, fs_files, savers, loaded>>
call_vars == <<call, ret>>
vars == <<runner_vars, validator_vars, history_vars, tts_vars, store_vars, fs_vars, call_vars>>
\* what the actions of one machine leave alone
outside_runner == <<validator_vars, history_vars, tts_vars, store_vars, fs_vars,
                    call_vars>>
outside_validator == <<runner_vars, history_vars, tts_vars, store_vars, fs_vars,
                       call_vars>>
outside_history == <<runner_vars, validator_vars, tts_vars, store_vars, fs_vars,
                     call_vars>>
outside_tts == <<runner_vars, validator_vars, history_vars, store_vars, fs_vars,
                 call_vars>>
outside_store == <<runner_vars, validator_vars, history_vars, tts_vars, fs_vars,
                   call_vars>>
outside_fs == <<runner_vars, validator_vars, history_vars, tts_vars, store_vars, call_vars>>
outside_call == <<runner_vars, validator_vars, history_vars, tts_vars, store_vars, fs_vars>>

(***************************************************************************)
(* The machines at rest.                                                   *)
(***************************************************************************)
HistoryIdle ==
    /\ proj = [kind |-> "none"]
    /\ call_site = [kind |-> "none"]
    /\ appended = <<>>

TtsIdle ==
    /\ disk = [kind |-> "none"]
    /\ tts_endpoint = ""
    /\ timeline_segments = <<>>
    /\ tts_cache = {}
    /\ requests = {}
    /\ renders_started = 0
    /\ previews_made = 0
    /\ rendered = FALSE
    /\ tpc = "off"
    /\ seg_idx = 0
    /\ seg_tts = <<>>
    /\ cache_hits = 0
    /\ generated = 0
    /\ response = [kind |-> "none"]

StoreIdle ==
    /\ store = [kind |-> "none"]
    /\ jobs = <<>>
    /\ completed = <<>>

FsIdle ==
    /\ fs_names = [kind |-> "none"]
    /\ fs_files = <<>>
    /\ savers = <<>>
    /\ loaded = {}

CallIdle ==
    /\ call = [fn |-> "none"]
    /\ ret = [kind |-> "none"]

(***************************************************************************)
(* Small helpers.                                                          *)
(***************************************************************************)
Max(a, b) == IF a >= b THEN a ELSE b

RECURSIVE SumSeq(_)
SumSeq(s) == IF s = <<>> THEN 0 ELSE Head(s) + SumSeq(Tail(s))

SeqsUpTo(S, n) == UNION {[1..k -> S] : k \in 0..n}

\* f"a{idx + 1}" for a 0-based idx
DefaultActionId(i) == <<"a1", "a2", "a3", "a4", "a5">>[i + 1]

(***************************************************************************)
(* DemoRunner: error classification and retry discipline.                  *)
(***************************************************************************)
\* An exception text is kept up to the substrings the classifier looks for:
\*   timeout  "timeout" occurs in the lowered text
\*   closed   "target closed", "context closed" or "browser has been closed" occurs
\*   net      "net::" or "connection reset" occurs
ErrorTexts == [timeout : BOOLEAN, closed : BOOLEAN, net : BOOLEAN]

\* "wait action duration {wait_ms}ms exceeds timeout_ms={timeout_ms}"
WaitTimeoutErrorText == [timeout |-> TRUE, closed |-> FALSE, net |-> FALSE]

_classify_error_type(error_text) ==
    IF error_text.timeout THEN "timeout"
    ELSE IF error_text.closed THEN "transient_browser"
    ELSE IF error_text.net THEN "transient_network"
    ELSE "action_error"

RetryEverything(error_type) == TRUE

_is_retryable_error(error_type) ==
    error_type \in {"timeout", "transient_browser", "transient_network"}

\* What one call of _execute_action can do: return, or raise with some text.
\* A wait longer than the action timeout raises before the page is touched; a
\* wait of 0 ms makes no browser call at all; every other action is one browser
\* call, which may return or raise anything.
Returned == [ok |-> TRUE, text |-> [timeout |-> FALSE, closed |-> FALSE, net |-> FALSE]]
Raised(text) == [ok |-> FALSE, text |-> text]

\* the wait is handed to the page without comparing it with the timeout first
ExecuteActionWaitUnchecked(action) ==
    IF action.action = "wait" /\ action.ms = 0 THEN {Returned}
    ELSE {Returned} \cup {Raised(t) : t \in ErrorTexts}

_execute_action(action) ==
    IF action.action = "wait"
    THEN IF action.ms > action.timeout_ms THEN {Raised(WaitTimeoutErrorText)}
         ELSE IF action.ms > 0 THEN {Returned} \cup {Raised(t) : t \in ErrorTexts}
         ELSE {Returned}
    ELSE {Returned} \cup {Raised(t) : t \in ErrorTexts}

\* one more attempt than max_attempts = 1 + max_retries
MaxAttemptsOneMore(action) == 2 + Max(0, action.retries)

\* max_attempts = 1 + max(0, int(action.retries))
MaxAttempts(action) == 1 + Max(0, action.retries)

AttemptLog(attempt, outcome) ==
    IF outcome.ok
    THEN [attempt |-> attempt, status |-> "ok", retryable |-> FALSE, error_type |-> ""]
    ELSE [attempt |-> attempt, status |-> "error",
          retryable |-> _is_retryable_error(_classify_error_type(outcome.text)),
          error_type |-> _classify_error_type(outcome.text)]

\* will_retry = retryable and attempt < max_attempts
WillRetry(action, attempt, outcome) ==
    /\ ~outcome.ok
    /\ _is_retryable_error(_classify_error_type(outcome.text))
    /\ attempt < MaxAttempts(action)

RetryCountIsAttempts(attempt) == attempt

\* retry_count = attempt - 1
RetryCount(attempt) == attempt - 1

\* The DemoActionExecution returned from inside the loop (lines 306 and 349).
DemoActionExecution(action, attempt, logs) ==
    [action_id |-> action.id,
     action |-> action.action,
     max_retries |-> Max(0, action.retries),
     attempts |-> attempt,
     retry_count |-> RetryCount(attempt),
     status |-> logs[Len(logs)].status,
     error_type |-> logs[Len(logs)].error_type,
     attempt_logs |-> logs]

\* The DemoActionExecution of _execute_dry_run.
DryRunExecution(action) ==
    [action_id |-> action.id,
     action |-> action.action,
     max_retries |-> action.retries,
     attempts |-> 1,
     retry_count |-> 0,
     status |-> "ok",
     error_type |-> "",
     attempt_logs |-> <<[attempt |-> 1, status |-> "ok", retryable |-> FALSE,
                         error_type |-> ""]>>]

(***************************************************************************)
(* DemoRunner: summaries.                                                  *)
(***************************************************************************)
RECURSIVE CountStatus(_, _)
CountStatus(execs, status) ==
    IF execs = <<>> THEN 0
    ELSE (IF Head(execs).status = status THEN 1 ELSE 0) + CountStatus(Tail(execs), status)

RECURSIVE SumRetryCount(_)
SumRetryCount(execs) ==
    IF execs = <<>> THEN 0 ELSE Head(execs).retry_count + SumRetryCount(Tail(execs))

RECURSIVE CountErrorType(_, _)
CountErrorType(execs, error_type) ==
    IF execs = <<>> THEN 0
    ELSE (IF Head(execs).error_type = error_type THEN 1 ELSE 0)
         + CountErrorType(Tail(execs), error_type)

_execution_summary(execs) ==
    [total |-> Len(execs),
     ok |-> CountStatus(execs, "ok"),
     error |-> Len(execs) - CountStatus(execs, "ok"),
     retries |-> SumRetryCount(execs),
     timeouts |-> CountErrorType(execs, "timeout")]

\* result_error is the list of failure reasons before "; ".join: every reason is a
\* non-empty string, so the joined string is empty exactly when the list is.
_error_summary(execs, result_error, dep_error, rt_error) ==
    LET failed == SelectSeq(execs, LAMBDA e : e.status # "ok")
    IN [has_error |-> (result_error # <<>>) \/ (failed # <<>>),
        message |-> result_error,
        failed_actions |-> Len(failed),
        failed_action_ids |-> [i \in 1..Len(failed) |-> failed[i].action_id],
        dependency_diagnostic |-> dep_error,
        runtime_diagnostic |-> rt_error]

(***************************************************************************)
(* DemoRunner: the raw_demo.mp4 artifact.                                  *)
(***************************************************************************)
\* What artifacts/raw_demo.mp4 can hold, as far as the probe tells it apart:
\*   missing   no file
\*   empty     a file of 0 bytes
\*   valid     ffprobe finds a video stream and a duration > 0
\*   novideo   ffprobe finds no video stream
\*   zerodur   ffprobe finds a video stream and a duration of 0
\*   corrupt   ffprobe fails on it
NonEmptyFiles == {"valid", "novideo", "zerodur", "corrupt"}
FileStates == {"missing", "empty"} \cup NonEmptyFiles

_probe_raw_demo_artifact(file) ==
    [raw_demo_exists |-> file # "missing",
     raw_demo_nonempty |-> file \in NonEmptyFiles,
     raw_demo_playable |-> file = "valid",
     raw_demo_probe_error |-> IF file = "corrupt" THEN "ffprobe failed" ELSE ""]

\* str(exc) of an exception escaping the capture: some text, or none at all.
ExceptionTexts == {"", "exception"}

\* How the tail of _execute_with_playwright (lines 429-461) can end once every
\* action has run: <<runtime error returned, raw_demo.mp4 left on disk>>.
CaptureEndings(file) ==
    \* no recording file: an empty raw_demo.mp4 is written
    {<<"Playwright recording file missing after run", "empty">>}
    \* ffprobe of the source recording fails: nothing is written
    \cup {<<"failed to probe Playwright recording", file>>}
    \* ffmpeg exits non-zero: whatever it wrote so far stays
    \cup {<<"ffmpeg transcode failed", f>> : f \in FileStates}
    \* ffmpeg exits 0 without a non-empty output
    \cup {<<"ffmpeg transcode produced empty raw_demo.mp4", f>> : f \in {"missing", "empty"}}
    \* transcode succeeded; leaving the sync_playwright() block may still raise
    \cup {<<e, f>> : e \in ExceptionTexts, f \in NonEmptyFiles}

(***************************************************************************)
(* DemoRunner.execute: decisions and the result record.                    *)
(***************************************************************************)
NoResult == [kind |-> "none"]

NeverFailFast(mode, used) == FALSE

\* not used_playwright and self.execution_mode == PLAYWRIGHT_REQUIRED_MODE
IsFailFast(mode, used) == ~used /\ mode = PLAYWRIGHT_REQUIRED_MODE

PlaywrightRequiredMessage ==
    "Playwright execution mode is set to 'playwright_required' but dependencies are unavailable"
ActionsFailedMessage == "action(s) failed during capture"
RuntimeFailureMessage == "Playwright runtime failure"
NotPlayableMessage == "Playwright capture did not produce a playable raw_demo.mp4"

FailureReasonsUngated(used, rt_error, summary, artifact) ==
    (IF rt_error # "" THEN <<RuntimeFailureMessage>> ELSE <<>>)
    \o (IF summary.error > 0 THEN <<ActionsFailedMessage>> ELSE <<>>)
    \o (IF summary.error = 0 /\ ~artifact.raw_demo_playable
        THEN <<NotPlayableMessage>> ELSE <<>>)

FailureReasonsActionsForgiven(used, rt_error, summary, artifact) ==
    IF used
    THEN (IF rt_error # "" THEN <<RuntimeFailureMessage>> ELSE <<>>)
         \o (IF ~artifact.raw_demo_playable THEN <<NotPlayableMessage>> ELSE <<>>)
    ELSE <<>>

FailureReasonsNoQualityGate(used, rt_error, summary, artifact) ==
    IF used
    THEN (IF rt_error # "" THEN <<RuntimeFailureMessage>> ELSE <<>>)
         \o (IF summary.error > 0 THEN <<ActionsFailedMessage>> ELSE <<>>)
    ELSE <<>>

\* failure_reasons of execute (lines 568-581)
FailureReasons(used, rt_error, summary, artifact) ==
    IF used
    THEN (IF rt_error # "" THEN <<RuntimeFailureMessage>> ELSE <<>>)
         \o (IF summary.error > 0 THEN <<ActionsFailedMessage>> ELSE <<>>)
         \o (IF summary.error = 0 /\ ~artifact.raw_demo_playable
             THEN <<NotPlayableMessage>> ELSE <<>>)
    ELSE <<>>

ResultModeIgnoringOk(used, ok) ==
    IF used THEN "demo_capture_playwright" ELSE "demo_capture_dry_run"

\* mode of the DemoRunResult (lines 594-598)
ResultMode(used, ok) ==
    IF used /\ ok THEN "demo_capture_playwright"
    ELSE IF used THEN "demo_capture_failed" ELSE "demo_capture_dry_run"

\* The DemoRunResult of the fail-fast branch (lines 522-556).
FailFastResult ==
    LET error == <<PlaywrightRequiredMessage,
                   IF dependency_error # "" THEN dependency_error
                   ELSE "missing dependency probe details">>
    IN [ok |-> FALSE,
        mode |-> "demo_capture_failed",
        execution_mode |-> execution_mode,
        raw_demo_mp4 |-> "None",
        actions_total |-> Len(actions),
        actions_executed |-> 0,
        error |-> error,
        executions |-> executions,
        stage_timings_ms |-> stage_timings_ms \cup {"total_ms"},
        execution_summary |-> _execution_summary(executions),
        error_summary |-> _error_summary(executions, error, dependency_error, runtime_error),
        artifact_summary |-> _probe_raw_demo_artifact(raw_demo),
        recording_profile |-> IF used_playwright THEN "standard" ELSE "none",
        dependency_status |-> dependency_status]

\* The DemoRunResult of the common exit (lines 565-618).
RunResult ==
    LET summary == _execution_summary(executions)
        artifact == _probe_raw_demo_artifact(raw_demo)
        reasons == FailureReasons(used_playwright, runtime_error, summary, artifact)
        result_ok == reasons = <<>>
    IN [ok |-> result_ok,
        mode |-> ResultMode(used_playwright, result_ok),
        execution_mode |-> execution_mode,
        raw_demo_mp4 |-> "artifacts/raw_demo.mp4",
        actions_total |-> Len(actions),
        actions_executed |-> Len(executions),
        error |-> reasons,
        executions |-> executions,
        stage_timings_ms |-> stage_timings_ms \cup {"total_ms"},
        execution_summary |-> summary,
        error_summary |-> _error_summary(executions, reasons, dependency_error, runtime_error),
        artifact_summary |-> artifact,
        recording_profile |-> IF used_playwright THEN "standard" ELSE "none",
        dependency_status |-> dependency_status]

(***************************************************************************)
(* DemoRunner.execute: the steps.                                          *)
(***************************************************************************)
\* The action lists execute is started on: what parse_action_events returns, kept
\* to the fields the runner reads. A click stands for every action that is one
\* browser call; the two waits are the ones that make none.
RunnerActionShapes(retries) ==
    [action : {"click"}, ms : {0}, timeout_ms : {MIN_ACTION_TIMEOUT_MS}, retries : retries]
    \cup [action : {"wait"}, ms : {0, 2 * MIN_ACTION_TIMEOUT_MS},
          timeout_ms : {MIN_ACTION_TIMEOUT_MS}, retries : retries]

WithId(shape, i) ==
    [id |-> DefaultActionId(i - 1), action |-> shape.action, ms |-> shape.ms,
     timeout_ms |-> shape.timeout_ms, retries |-> shape.retries]

RunnerActionLists(n, retries) ==
    {[i \in 1..Len(s) |-> WithId(s[i], i)] : s \in SeqsUpTo(RunnerActionShapes(retries), n)}

ValidatorIdle ==
    /\ raw_actions = <<>>
    /\ idx = 0
    /\ raw = [kind |-> "none"]
    /\ parsed = <<>>
    /\ seen_action_ids = {}
    /\ vpc = "idle"
    /\ verror = [kind |-> "none"]
    /\ vresult = <<>>

\* DemoRunner.__init__ and the first lines of execute, in a fresh run directory.
RunnerInit(lists) ==
    /\ execution_mode \in {PLAYWRIGHT_OPTIONAL_MODE, PLAYWRIGHT_REQUIRED_MODE}
    /\ actions \in lists
    /\ pc = "probe"
    /\ dependency_status = [ok |-> FALSE, error |-> ""]
    /\ dependency_error = ""
    /\ runtime_error = ""
    /\ used_playwright = FALSE
    /\ executions = <<>>
    /\ attempt_logs = <<>>
    /\ raw_demo = "missing"
    /\ stage_timings_ms = {}
    /\ result = NoResult
    /\ ValidatorIdle
    /\ HistoryIdle
    /\ TtsIdle
    /\ StoreIdle
    /\ FsIdle
    /\ CallIdle

\* dependency_status = probe_playwright_dependencies() (lines 501-508)
ProbeDependencies ==
    /\ pc = "probe"
    /\ \E ok \in BOOLEAN :
        /\ dependency_status' =
              [ok |-> ok, error |-> IF ok THEN "" ELSE "Playwright unavailable"]
        /\ dependency_error' = (IF ok THEN "" ELSE "Playwright unavailable")
        /\ pc' = (IF ok THEN "capture_start" ELSE "decide")
    /\ stage_timings_ms' = stage_timings_ms \cup {"dependency_probe_ms"}
    /\ UNCHANGED <<execution_mode, actions, runtime_error, used_playwright, executions,
                   attempt_logs, raw_demo, result>>
    /\ UNCHANGED outside_runner

\* a capture that raised counts as not started, whatever it had executed
ReturnFromCaptureUnstarted(used, rt_error, file) ==
    /\ used_playwright' = (used /\ rt_error = "")
    /\ runtime_error' = rt_error
    /\ raw_demo' = file
    /\ stage_timings_ms' = stage_timings_ms \cup {"capture_ms"}
    /\ dependency_error' = (IF rt_error # "" THEN rt_error ELSE dependency_error)
    /\ dependency_status' =
          (IF rt_error # "" THEN [ok |-> FALSE, error |-> RuntimeFailureMessage]
           ELSE dependency_status)
    /\ pc' = "decide"

\* _execute_with_playwright returns <<used, rt_error>> and execute takes it over
\* (lines 510-519).
ReturnFromCapture(used, rt_error, file) ==
    /\ used_playwright' = used
    /\ runtime_error' = rt_error
    /\ raw_demo' = file
    /\ stage_timings_ms' = stage_timings_ms \cup {"capture_ms"}
    /\ dependency_error' = (IF rt_error # "" THEN rt_error ELSE dependency_error)
    /\ dependency_status' =
          (IF rt_error # "" THEN [ok |-> FALSE, error |-> RuntimeFailureMessage]
           ELSE dependency_status)
    /\ pc' = "decide"

\* The import, or entering sync_playwright(), raises: playwright_started is still False.
PlaywrightNotStarted ==
    /\ pc = "capture_start"
    /\ \E e \in ExceptionTexts : ReturnFromCapture(FALSE, e, raw_demo)
    /\ UNCHANGED <<execution_mode, actions, executions, attempt_logs, result>>
    /\ UNCHANGED outside_runner

\* playwright_started = True (line 401)
StartCapture ==
    /\ pc = "capture_start"
    /\ pc' = "actions"
    /\ UNCHANGED <<execution_mode, actions, dependency_status, dependency_error,
                   runtime_error, used_playwright, executions, attempt_logs, raw_demo,
                   stage_timings_ms, result>>
    /\ UNCHANGED outside_runner

\* An exception outside _execute_action_with_retry once Playwright has started
\* (browser launch, context or page creation, the sleep of _planned_wait,
\* browser.close): caught at line 459 with playwright_started = True.
CaptureRaises ==
    /\ pc = "actions"
    /\ attempt_logs = <<>>
    /\ \E e \in ExceptionTexts : ReturnFromCapture(TRUE, e, raw_demo)
    /\ UNCHANGED <<execution_mode, actions, executions, attempt_logs, result>>
    /\ UNCHANGED outside_runner

\* One iteration of the loop of _execute_action_with_retry on the next action; a
\* finished action is logged (_log_execution, line 427).
ExecuteAttempt ==
    /\ pc = "actions"
    /\ Len(executions) < Len(actions)
    /\ LET action == actions[Len(executions) + 1]
           attempt == Len(attempt_logs) + 1
       IN /\ attempt <= MaxAttempts(action)
          /\ \E outcome \in _execute_action(action) :
               LET logs == Append(attempt_logs, AttemptLog(attempt, outcome))
               IN IF WillRetry(action, attempt, outcome)
                  THEN /\ attempt_logs' = logs
                       /\ UNCHANGED executions
                  ELSE /\ attempt_logs' = <<>>
                       /\ executions' =
                             Append(executions, DemoActionExecution(action, attempt, logs))
    /\ UNCHANGED <<execution_mode, actions, pc, dependency_status, dependency_error,
                   runtime_error, used_playwright, raw_demo, stage_timings_ms, result>>
    /\ UNCHANGED outside_runner

\* Every action has run: stop tracing, close, transcode (lines 429-461).
FinishCapture ==
    /\ pc = "actions"
    /\ Len(executions) = Len(actions)
    /\ \E ending \in CaptureEndings(raw_demo) : ReturnFromCapture(TRUE, ending[1], ending[2])
    /\ UNCHANGED <<execution_mode, actions, executions, attempt_logs, result>>
    /\ UNCHANGED outside_runner

\* The fail-fast branch (lines 521-558).
FailFast ==
    /\ pc = "decide"
    /\ IsFailFast(execution_mode, used_playwright)
    /\ result' = FailFastResult
    /\ stage_timings_ms' = stage_timings_ms \cup {"total_ms"}
    /\ pc' = "done"
    /\ UNCHANGED <<execution_mode, actions, dependency_status, dependency_error,
                   runtime_error, used_playwright, executions, attempt_logs, raw_demo>>
    /\ UNCHANGED outside_runner

\* _execute_dry_run (lines 560-563 and 463-493)
DryRun ==
    /\ pc = "decide"
    /\ ~IsFailFast(execution_mode, used_playwright)
    /\ ~used_playwright
    /\ executions' = executions \o [i \in 1..Len(actions) |-> DryRunExecution(actions[i])]
    /\ raw_demo' = "empty"
    /\ stage_timings_ms' = stage_timings_ms \cup {"dry_run_ms"}
    /\ pc' = "summarize"
    /\ UNCHANGED <<execution_mode, actions, dependency_status, dependency_error,
                   runtime_error, used_playwright, attempt_logs, result>>
    /\ UNCHANGED outside_runner

\* The common exit (lines 565-620).
BuildResult ==
    /\ \/ pc = "summarize"
       \/ pc = "decide" /\ ~IsFailFast(execution_mode, used_playwright) /\ used_playwright
    /\ result' = RunResult
    /\ stage_timings_ms' = stage_timings_ms \cup {"total_ms"}
    /\ pc' = "done"
    /\ UNCHANGED <<execution_mode, actions, dependency_status, dependency_error,
                   runtime_error, used_playwright, executions, attempt_logs, raw_demo>>
    /\ UNCHANGED outside_runner

RunnerNext ==
    \/ ProbeDependencies
    \/ PlaywrightNotStarted
    \/ StartCapture
    \/ CaptureRaises
    \/ ExecuteAttempt
    \/ FinishCapture
    \/ FailFast
    \/ DryRun
    \/ BuildResult

\* retries the runner is started with under Spec
RunRetries == {0, 1}

Init == RunnerInit(RunnerActionLists(MaxRunActions, RunRetries))
Next == RunnerNext
Spec == Init /\ [][Next]_vars

\* One action, with every retries value the validator lets through.
InitRetry == RunnerInit(RunnerActionLists(1, MIN_ACTION_RETRIES..MAX_ACTION_RETRIES))
SpecRetry == InitRetry /\ [][Next]_vars

(***************************************************************************)
(* Properties of DemoRunner.                                               *)
(***************************************************************************)
Finished == result # NoResult
RetryableTypes == {"timeout", "transient_browser", "transient_network"}

\* The attempts recorded for one action obey the retry discipline: at most
\* 1 + retries of them, numbered from 1; an attempt was followed by another only
\* if it failed with a retryable classification; and the action stopped
\* (finished) only on a success, a non-retryable failure or the last attempt.
AttemptsObeyDiscipline(logs, retries, finished) ==
    /\ Len(logs) <= 1 + retries
    /\ \A k \in 1..Len(logs) : logs[k].attempt = k
    /\ \A k \in 1..(Len(logs) - 1) :
          logs[k].status = "error" /\ logs[k].error_type \in RetryableTypes
    /\ finished =>
          /\ logs # <<>>
          /\ \/ logs[Len(logs)].status = "ok"
             \/ logs[Len(logs)].error_type \notin RetryableTypes
             \/ Len(logs) = 1 + retries
    /\ (~finished /\ logs # <<>>) =>
          /\ logs[Len(logs)].status = "error"
          /\ logs[Len(logs)].error_type \in RetryableTypes
          /\ Len(logs) < 1 + retries

\* C1: in _execute_action_with_retry at most 1 + retries attempts are made; a
\* failed attempt is followed by another one exactly when its failure is
\* classified timeout, transient_browser or transient_network and fewer than
\* 1 + retries attempts have been made; the first successful attempt ends the
\* action with status ok and nothing follows it.
C1_RetryDiscipline ==
    /\ \A i \in 1..Len(executions) :
          LET e == executions[i]
          IN /\ AttemptsObeyDiscipline(e.attempt_logs, actions[i].retries, TRUE)
             /\ e.attempts = Len(e.attempt_logs)
             /\ e.status = e.attempt_logs[Len(e.attempt_logs)].status
             /\ e.status \in {"ok", "error"}
    /\ (pc = "actions" /\ Len(executions) < Len(actions)) =>
          AttemptsObeyDiscipline(attempt_logs, actions[Len(executions) + 1].retries, FALSE)
    /\ attempt_logs # <<>> => ENABLED ExecuteAttempt

\* An action with the largest retries value succeeded on its last attempt.
C1_Witness ==
    \E i \in 1..Len(executions) :
        /\ used_playwright
        /\ actions[i].retries = MAX_ACTION_RETRIES
        /\ executions[i].attempts = 1 + MAX_ACTION_RETRIES
        /\ executions[i].status = "ok"

\* A Playwright run without dependency or runtime failure, with a playable
\* raw_demo.mp4 and at least one action that ended with status error.
ActionFailuresOnly ==
    /\ Finished
    /\ result.recording_profile = "standard"
    /\ result.error_summary.runtime_diagnostic = ""
    /\ result.dependency_status.ok
    /\ result.artifact_summary.raw_demo_playable
    /\ result.execution_summary.error > 0

\* C2 as stated: per-action failures never fail a demo run, so a run in which
\* only actions failed has ok = true and a mode other than demo_capture_failed.
C2_AsStated ==
    ActionFailuresOnly => result.ok /\ result.mode # "demo_capture_failed"

\* C2 amended: per-action failures do not stop a demo run but they do mark it
\* failed. A run in which only actions failed still executes every action, and
\* its result has ok = false, mode = demo_capture_failed and the single failure
\* reason "N action(s) failed during capture"; the failures are also recorded in
\* executions[] and counted in error_summary.
C2_ActionFailuresFailTheRun ==
    ActionFailuresOnly =>
        /\ ~result.ok
        /\ result.mode = "demo_capture_failed"
        /\ result.error = <<ActionsFailedMessage>>
        /\ result.actions_executed = result.actions_total
        /\ result.error_summary.has_error
        /\ result.error_summary.failed_actions = result.execution_summary.error
        /\ result.error_summary.failed_actions =
              Cardinality({i \in 1..Len(result.executions) :
                              result.executions[i].status = "error"})

C2_Witness == ActionFailuresOnly /\ result.execution_summary.ok > 0

\* A Playwright run whose executions hold no action with status error.
PlaywrightRunWithoutActionErrors ==
    /\ Finished
    /\ result.recording_profile = "standard"
    /\ result.execution_summary.error = 0

\* C3 as stated: for a Playwright run with zero action errors, ok holds exactly
\* when artifact_summary.raw_demo_playable does, whatever the runtime/transcode
\* outcome.
C3_AsStated ==
    PlaywrightRunWithoutActionErrors =>
        (result.ok <=> result.artifact_summary.raw_demo_playable)

\* C3 amended: for a Playwright run with zero action errors, ok holds exactly
\* when raw_demo.mp4 is playable and the capture reported no runtime error (a
\* failed transcode or an exception after Playwright started fails the run even
\* if a playable file is on disk).
C3_QualityGate ==
    PlaywrightRunWithoutActionErrors =>
        (result.ok <=> (/\ result.artifact_summary.raw_demo_playable
                        /\ result.error_summary.runtime_diagnostic = ""))

C3_Witness ==
    /\ PlaywrightRunWithoutActionErrors
    /\ result.ok
    /\ result.actions_executed = MaxRunActions

\* C4: in playwright_required mode a run in which Playwright was not used (probe
\* not ok, or Playwright could not be started) fails fast: ok = false,
\* mode = demo_capture_failed, actions_executed = 0, raw_demo_mp4 null, the
\* error names playwright_required, error_summary.has_error, and the dry run is
\* never executed (no dry_run_ms stage, no execution logged, no file written).
C4_RequiredModeFailsFast ==
    (Finished /\ execution_mode = PLAYWRIGHT_REQUIRED_MODE /\ ~used_playwright) =>
        /\ ~result.ok
        /\ result.mode = "demo_capture_failed"
        /\ result.actions_executed = 0
        /\ result.raw_demo_mp4 = "None"
        /\ result.error # <<>>
        /\ result.error[1] = PlaywrightRequiredMessage
        /\ result.error_summary.has_error
        /\ "dry_run_ms" \notin result.stage_timings_ms
        /\ result.executions = <<>>
        /\ raw_demo = "missing"

\* Required mode, the probe passed, and Playwright then could not be started.
C4_Witness ==
    /\ Finished
    /\ execution_mode = PLAYWRIGHT_REQUIRED_MODE
    /\ ~used_playwright
    /\ "capture_ms" \in result.stage_timings_ms
    /\ Len(actions) = MaxRunActions

\* playwright_optional with a dependency probe that is not ok.
OptionalWithoutBrowser ==
    /\ Finished
    /\ execution_mode = PLAYWRIGHT_OPTIONAL_MODE
    /\ ~result.dependency_status.ok
    /\ "capture_ms" \notin result.stage_timings_ms

\* C5: in playwright_optional mode with the browser capability unavailable the
\* run falls back to a dry run: ok = true, mode = demo_capture_dry_run,
\* actions_executed = actions_total, every execution ok with attempts = 1 and
\* retry_count = 0, error_summary.has_error = false, raw_demo.mp4 of zero bytes.
C5_OptionalModeDryRun ==
    OptionalWithoutBrowser =>
        /\ result.ok
        /\ result.mode = "demo_capture_dry_run"
        /\ result.actions_executed = result.actions_total
        /\ Len(result.executions) = Len(actions)
        /\ \A i \in 1..Len(result.executions) :
              /\ result.executions[i].status = "ok"
              /\ result.executions[i].attempts = 1
              /\ result.executions[i].retry_count = 0
              /\ result.executions[i].action_id = actions[i].id
        /\ ~result.error_summary.has_error
        /\ raw_demo = "empty"
        /\ result.artifact_summary.raw_demo_exists
        /\ ~result.artifact_summary.raw_demo_nonempty

C5_Witness ==
    /\ OptionalWithoutBrowser
    /\ Len(actions) = MaxRunActions
    /\ \E i \in 1..Len(actions) : actions[i].retries > 0 /\ actions[i].ms > actions[i].timeout_ms

\* C6: every DemoRunResult has actions_executed <= actions_total,
\* execution_summary.ok + execution_summary.error = execution_summary.total, and
\* execution_summary.retries equal to the sum over executions of
\* max(0, attempts - 1).
C6_SummaryInvariants ==
    Finished =>
        /\ result.actions_executed <= result.actions_total
        /\ result.execution_summary.ok + result.execution_summary.error
              = result.execution_summary.total
        /\ result.execution_summary.total = Len(result.executions)
        /\ result.execution_summary.retries =
              SumSeq([i \in 1..Len(result.executions) |->
                         Max(0, result.executions[i].attempts - 1)])

C6_Witness ==
    /\ Finished
    /\ result.execution_summary.retries > 0
    /\ result.execution_summary.ok > 0
    /\ result.execution_summary.error > 0

\* C7: every DemoRunResult has one of the three modes, and the mode classifies
\* the outcome: demo_capture_playwright iff Playwright was used and ok;
\* demo_capture_dry_run iff Playwright was not used and ok; demo_capture_failed
\* iff not ok.
C7_ModeClassifiesOutcome ==
    Finished =>
        /\ result.mode \in {"demo_capture_playwright", "demo_capture_dry_run",
                            "demo_capture_failed"}
        /\ (result.mode = "demo_capture_playwright") <=> (used_playwright /\ result.ok)
        /\ (result.mode = "demo_capture_dry_run") <=> (~used_playwright /\ result.ok)
        /\ (result.mode = "demo_capture_failed") <=> ~result.ok

C7_Witness ==
    /\ Finished
    /\ used_playwright
    /\ result.mode = "demo_capture_failed"
    /\ result.execution_summary.error = 0

(***************************************************************************)
(* parse_action_events: the JSON values it reads.                          *)
(***************************************************************************)
\* A JSON value handed to int(): absent (None), something int() raises on, an
\* integer, or a float given in tenths (15 is 1.5).
NoneV == [k |-> "none", v |-> 0]
BadV == [k |-> "bad", v |-> 0]
IntV(n) == [k |-> "int", v |-> n]
FloatV(tenths) == [k |-> "float", v |-> tenths]

\* int(value): a float is truncated toward zero.
IntOf(value) ==
    IF value.k = "float"
    THEN (IF value.v >= 0 THEN value.v \div 10 ELSE -((-value.v) \div 10))
    ELSE value.v

\* "no maximum" / "no default" of _parse_int_field
NoneInt == -1

Accepted(n) == [ok |-> TRUE, value |-> n, field |-> "", text |-> ""]
Rejected(field_name, text) == [ok |-> FALSE, value |-> 0, field |-> field_name, text |-> text]

ParseIntFieldNoMaximum(value, field_name, minimum, maximum, default) ==
    IF value.k = "none"
    THEN (IF default # NoneInt THEN Accepted(default) ELSE Rejected(field_name, "is required"))
    ELSE IF value.k = "bad" THEN Rejected(field_name, "must be an integer")
    ELSE IF IntOf(value) < minimum THEN Rejected(field_name, "must be >= minimum")
    ELSE Accepted(IntOf(value))

_parse_int_field(value, field_name, minimum, maximum, default) ==
    IF value.k = "none"
    THEN (IF default # NoneInt THEN Accepted(default) ELSE Rejected(field_name, "is required"))
    ELSE IF value.k = "bad" THEN Rejected(field_name, "must be an integer")
    ELSE IF IntOf(value) < minimum THEN Rejected(field_name, "must be >= minimum")
    ELSE IF maximum # NoneInt /\ IntOf(value) > maximum
         THEN Rejected(field_name, "must be <= maximum")
    ELSE Accepted(IntOf(value))

\* str.strip() on the strings the model uses
Strip(s) ==
    CASE s = " " -> ""
      [] s = "z " -> "z"
      [] s = "Enter " -> "Enter"
      [] s = " Wait " -> "Wait"
      [] OTHER -> s

\* str.lower() on the strings the model uses
Lower(s) == IF s = "Wait" THEN "wait" ELSE s

\* target.startswith("http://") or target.startswith("https://")
HasHttpScheme(target) == target \in {"https://x", "http://x"}

\* Python's order on the action ids the model uses
IdRank(id) ==
    CASE id = "a1" -> 1 [] id = "a2" -> 2 [] id = "a3" -> 3 [] id = "a4" -> 4
      [] id = "a5" -> 5 [] id = "z" -> 6 [] OTHER -> 0

\* raw.get("args"): absent, a dict, or no dict (falsy such as [] or "", truthy
\* such as [1] or "x"). A dict is kept by the keys the validator may read.
NoArgs ==
    [kind |-> "none", value |-> "absent", key |-> "absent", ms |-> NoneV,
     timeout_ms |-> NoneV, retries |-> NoneV]
NotDictArgs(kind) == [NoArgs EXCEPT !.kind = kind]
DictArgs == [NoArgs EXCEPT !.kind = "dict"]

\* (raw.get("args") or {}).get(name): None for a missing or falsy args, an
\* AttributeError for a truthy value that is no dict.
ArgsGetCrashes(args) == args.kind = "truthy"

(***************************************************************************)
(* parse_action_events: one entry.                                         *)
(***************************************************************************)
\* An entry of action_events is read in two parts: its "id" and "at_ms" are part
\* of raw_actions from the start, its other keys (rest) are drawn when the loop
\* reads the entry.
EntryHead(is_dict, id, at_ms) == [is_dict |-> is_dict, id |-> id, at_ms |-> at_ms]
NotDictEntry == EntryHead(FALSE, "", NoneV)

\* str(raw.get("id") or f"a{idx + 1}").strip()
ActionIdOf(head, i) == IF head.id = "" THEN DefaultActionId(i) ELSE Strip(head.id)

ValidationError(field, text, i, action_id) ==
    [outcome |-> "raise",
     error |-> [field |-> field, text |-> text, index |-> i, action_id |-> action_id]]
AttributeErrorCrash == [outcome |-> "crash"]

SeenAfterForgetting(seen, action_id) == seen

\* seen_action_ids.add(action_id)
SeenAfter(seen, action_id) == seen \cup {action_id}

\* The DemoActionEvent appended for an accepted entry (lines 188-199), with the
\* args dict as the validator leaves it.
DemoActionEvent(action_id, at_ms, action_type, target, args, timeout_ms, retries, i) ==
    [id |-> action_id, at_ms |-> at_ms, action |-> action_type, target |-> target,
     args |-> args, timeout_ms |-> timeout_ms, retries |-> retries, source_index |-> i]

\* The body of the loop for entry number i (0-based), lines 86-199.
ValidateEntry(head, rest, i, seen) ==
    LET action_id == ActionIdOf(head, i)
        action_type == Lower(Strip(rest.action))
        at_ms == _parse_int_field(head.at_ms, "action at_ms", 0, NoneInt, NoneInt)
        timeout_raw ==
            IF rest.timeout_ms.k # "none" THEN rest.timeout_ms ELSE rest.args.timeout_ms
        timeout_ms == _parse_int_field(timeout_raw, "action timeout_ms",
                          MIN_ACTION_TIMEOUT_MS, MAX_ACTION_TIMEOUT_MS, DEFAULT_ACTION_TIMEOUT_MS)
        retries_raw == IF rest.retries.k # "none" THEN rest.retries ELSE rest.args.retries
        retries == _parse_int_field(retries_raw, "action retries",
                          MIN_ACTION_RETRIES, MAX_ACTION_RETRIES, DEFAULT_ACTION_RETRIES)
        target == Strip(rest.target)
        wait_ms == _parse_int_field(rest.args.ms, "wait action args.ms", 0, MAX_WAIT_MS, NoneInt)
        raise(field, text) == ValidationError(field, text, i, action_id)
        args ==
            [value |-> rest.args.value,
             key |-> IF action_type = "press" THEN Strip(rest.args.key) ELSE rest.args.key,
             ms |-> IF action_type = "wait" THEN IntV(wait_ms.value) ELSE rest.args.ms,
             timeout_ms |-> rest.args.timeout_ms,
             retries |-> rest.args.retries]
    IN  IF ~head.is_dict THEN ValidationError("", "action event must be an object", i, "")
        ELSE IF action_id = "" THEN raise("", "action id must be non-empty")
        ELSE IF action_id \in seen THEN raise("", "duplicate action id")
        ELSE IF action_type \notin SUPPORTED_ACTIONS THEN raise("", "unsupported action")
        ELSE IF ~at_ms.ok THEN raise(at_ms.field, at_ms.text)
        ELSE IF rest.timeout_ms.k = "none" /\ ArgsGetCrashes(rest.args) THEN AttributeErrorCrash
        ELSE IF ~timeout_ms.ok THEN raise(timeout_ms.field, timeout_ms.text)
        ELSE IF rest.retries.k = "none" /\ ArgsGetCrashes(rest.args) THEN AttributeErrorCrash
        ELSE IF ~retries.ok THEN raise(retries.field, retries.text)
        ELSE IF rest.args.kind \in {"falsy", "truthy"}
             THEN raise("", "action args must be an object")
        ELSE IF action_type \in {"goto", "click", "fill", "press"} /\ target = ""
             THEN raise("", "action requires a non-empty target")
        ELSE IF action_type = "goto" /\ ~HasHttpScheme(target)
             THEN raise("", "goto action target must start with http:// or https://")
        ELSE IF action_type = "fill" /\ rest.args.value = "absent"
             THEN raise("", "fill action requires args.value")
        ELSE IF action_type = "fill" /\ rest.args.value = "bad"
             THEN raise("", "fill action args.value must be string/number/bool")
        ELSE IF action_type = "press" /\ rest.args.key = "absent"
             THEN raise("", "press action requires args.key")
        ELSE IF action_type = "press" /\ Strip(rest.args.key) = ""
             THEN raise("", "press action requires non-empty args.key")
        ELSE IF action_type = "wait" /\ ~wait_ms.ok THEN raise(wait_ms.field, wait_ms.text)
        ELSE [outcome |-> "ok",
              event |-> DemoActionEvent(action_id, at_ms.value, action_type,
                            IF action_type = "wait" THEN "" ELSE target,
                            args, timeout_ms.value, retries.value, i)]

(***************************************************************************)
(* parse_action_events: the sort.                                          *)
(***************************************************************************)
SortKeyLessWithoutSourceIndex(a, b) ==
    \/ a.at_ms < b.at_ms
    \/ a.at_ms = b.at_ms /\ IdRank(a.id) < IdRank(b.id)

\* (a.at_ms, a.source_index, a.id) < (b.at_ms, b.source_index, b.id)
SortKeyLess(a, b) ==
    \/ a.at_ms < b.at_ms
    \/ a.at_ms = b.at_ms /\ a.source_index < b.source_index
    \/ a.at_ms = b.at_ms /\ a.source_index = b.source_index /\ IdRank(a.id) < IdRank(b.id)

RECURSIVE InsertSorted(_, _)
\* e put into the sorted list s behind every element that is not greater (stable)
InsertSorted(e, s) ==
    IF s = <<>> THEN <<e>>
    ELSE IF SortKeyLess(e, Head(s)) THEN <<e>> \o s
    ELSE <<Head(s)>> \o InsertSorted(e, Tail(s))

RECURSIVE SortEvents(_)
\* parsed.sort(key=lambda event: (event.at_ms, event.source_index, event.id))
SortEvents(s) ==
    IF s = <<>> THEN <<>>
    ELSE InsertSorted(s[Len(s)], SortEvents(SubSeq(s, 1, Len(s) - 1)))

(***************************************************************************)
(* parse_action_events: the machine.                                       *)
(***************************************************************************)
Rest(action, target, args, timeout_ms, retries) ==
    [action |-> action, target |-> target, args |-> args,
     timeout_ms |-> timeout_ms, retries |-> retries]
NoRest == Rest("", "", NoArgs, NoneV, NoneV)

\* raw "id" values: absent, blank, explicit, explicit with trailing blank
RawIds == {"", " ", "a2", "z", "z "}
\* raw "at_ms" values
RawAtMs == {NoneV, BadV, IntV(-1), IntV(0), IntV(1)}
RawHeads == {NotDictEntry} \cup {EntryHead(TRUE, id, at) : id \in RawIds, at \in RawAtMs}

\* raw "timeout_ms" and "retries" values around the limits
RawTimeouts ==
    {BadV, IntV(MIN_ACTION_TIMEOUT_MS - 1), IntV(MIN_ACTION_TIMEOUT_MS),
     IntV(MAX_ACTION_TIMEOUT_MS), IntV(MAX_ACTION_TIMEOUT_MS + 1)}
RawRetries ==
    {BadV, IntV(MIN_ACTION_RETRIES - 1), IntV(MIN_ACTION_RETRIES),
     IntV(MAX_ACTION_RETRIES), IntV(MAX_ACTION_RETRIES + 1), FloatV(15)}
RawWaitMs ==
    {NoneV, BadV, IntV(-1), IntV(0), FloatV(5), IntV(MAX_WAIT_MS), IntV(MAX_WAIT_MS + 1)}

\* The other keys of an entry: every action with well and ill formed targets and
\* args, and the numeric fields at and beyond their limits, top-level or in args.
RawRests ==
    {Rest("click", t, a, NoneV, NoneV) :
        t \in {"", "#x"}, a \in {NoArgs, NotDictArgs("falsy"), NotDictArgs("truthy")}}
    \cup {Rest("goto", t, NoArgs, NoneV, NoneV) : t \in {"", "#x", "https://x"}}
    \cup {Rest("fill", "#x", a, NoneV, NoneV) :
            a \in {NoArgs, DictArgs, [DictArgs EXCEPT !.value = "str"],
                   [DictArgs EXCEPT !.value = "bad"]}}
    \cup {Rest("press", "#x", a, NoneV, NoneV) :
            a \in {DictArgs, [DictArgs EXCEPT !.key = "Enter "], [DictArgs EXCEPT !.key = " "]}}
    \cup {Rest("wait", "", [DictArgs EXCEPT !.ms = m], NoneV, NoneV) : m \in RawWaitMs}
    \cup {Rest("wait", "", NoArgs, NoneV, NoneV),
          Rest(" Wait ", "", [DictArgs EXCEPT !.ms = IntV(0)], NoneV, NoneV),
          Rest("drag", "#x", NoArgs, NoneV, NoneV),
          Rest("", "#x", NoArgs, NoneV, NoneV)}
    \cup {Rest("click", "#x", NoArgs, t, NoneV) : t \in RawTimeouts}
    \cup {Rest("click", "#x", NoArgs, NoneV, r) : r \in RawRetries}
    \cup {Rest("click", "#x", [DictArgs EXCEPT !.timeout_ms = t], NoneV, NoneV) :
            t \in {IntV(MIN_ACTION_TIMEOUT_MS - 1), IntV(MIN_ACTION_TIMEOUT_MS)}}
    \cup {Rest("click", "#x", [DictArgs EXCEPT !.retries = IntV(MAX_ACTION_RETRIES + 1)],
               NoneV, NoneV),
          Rest("click", "#x", [DictArgs EXCEPT !.timeout_ms = IntV(MIN_ACTION_TIMEOUT_MS - 1)],
               IntV(MIN_ACTION_TIMEOUT_MS), NoneV),
          Rest("click", "#x", NotDictArgs("truthy"), IntV(MIN_ACTION_TIMEOUT_MS),
               IntV(MIN_ACTION_RETRIES))}

\* The inputs are two families of lists. A list whose entries all have a plain
\* head (no id or the id "z", at_ms 0) takes the other keys of each entry from
\* all of RawRests; a list with any other head (blank, repeated or stripped ids,
\* missing, malformed, negative or differing at_ms, entries that are no
\* objects) takes them from BasicRests.
PlainHeads == {EntryHead(TRUE, id, IntV(0)) : id \in {"", "z"}}
BasicRests ==
    {Rest("click", "#x", NoArgs, NoneV, NoneV),
     Rest("wait", "", [DictArgs EXCEPT !.ms = IntV(0)], NoneV, NoneV),
     Rest("goto", "#x", NoArgs, NoneV, NoneV),
     Rest("drag", "#x", NoArgs, NoneV, NoneV),
     Rest("click", "#x", NotDictArgs("truthy"), NoneV, NoneV)}
RestsFor(items, head) ==
    IF ~head.is_dict THEN {NoRest}
    ELSE IF \A i \in 1..Len(items) : items[i] \in PlainHeads THEN RawRests
    ELSE BasicRests

\* timeline.get("action_events") when it is no list
NotAList == [is_list |-> FALSE, items |-> <<>>]
ActionEventLists(n) == {[is_list |-> TRUE, items |-> s] : s \in SeqsUpTo(RawHeads, n)}

RunnerIdle ==
    /\ execution_mode = PLAYWRIGHT_OPTIONAL_MODE
    /\ actions = <<>>
    /\ pc = "idle"
    /\ dependency_status = [ok |-> FALSE, error |-> ""]
    /\ dependency_error = ""
    /\ runtime_error = ""
    /\ used_playwright = FALSE
    /\ executions = <<>>
    /\ attempt_logs = <<>>
    /\ raw_demo = "missing"
    /\ stage_timings_ms = {}
    /\ result = NoResult

\* parse_action_events up to the loop (lines 79-84)
ValidatorInit ==
    /\ raw_actions \in {NotAList} \cup ActionEventLists(MaxActions)
    /\ idx = 0
    /\ raw = [head |-> NotDictEntry, rest |-> NoRest]
    /\ parsed = <<>>
    /\ seen_action_ids = {}
    /\ vpc = "loop"
    /\ verror = [field |-> "", text |-> "", index |-> 0, action_id |-> ""]
    /\ vresult = <<>>
    /\ RunnerIdle
    /\ HistoryIdle
    /\ TtsIdle
    /\ StoreIdle
    /\ FsIdle
    /\ CallIdle

\* if not isinstance(raw_actions, list): return [] (lines 80-81)
ReturnEmptyForNonList ==
    /\ vpc = "loop"
    /\ ~raw_actions.is_list
    /\ vresult' = <<>>
    /\ vpc' = "returned"
    /\ UNCHANGED <<raw_actions, idx, raw, parsed, seen_action_ids, verror>>
    /\ UNCHANGED outside_validator

\* seen_action_ids when the loop body is left, normally or by an exception
SeenAtExit(head, i, seen) ==
    IF head.is_dict /\ ActionIdOf(head, i) # "" /\ ActionIdOf(head, i) \notin seen
    THEN SeenAfter(seen, ActionIdOf(head, i))
    ELSE seen

\* one iteration of the loop (lines 85-199)
ParseEntry ==
    /\ vpc = "loop"
    /\ raw_actions.is_list
    /\ idx < Len(raw_actions.items)
    /\ LET head == raw_actions.items[idx + 1]
       IN  \E rest \in RestsFor(raw_actions.items, head) :
             LET r == ValidateEntry(head, rest, idx, seen_action_ids)
             IN  /\ raw' = [head |-> head, rest |-> rest]
                 /\ seen_action_ids' = SeenAtExit(head, idx, seen_action_ids)
                 /\ parsed' = IF r.outcome = "ok" THEN Append(parsed, r.event) ELSE parsed
                 /\ idx' = IF r.outcome = "ok" THEN idx + 1 ELSE idx
                 /\ vpc' = CASE r.outcome = "ok" -> "loop"
                             [] r.outcome = "raise" -> "raised"
                             [] OTHER -> "crashed"
                 /\ verror' = IF r.outcome = "raise" THEN r.error ELSE verror
    /\ UNCHANGED <<raw_actions, vresult>>
    /\ UNCHANGED outside_validator

\* parsed.sort(...); return parsed (lines 201-202)
ReturnSorted ==
    /\ vpc = "loop"
    /\ raw_actions.is_list
    /\ idx = Len(raw_actions.items)
    /\ vresult' = SortEvents(parsed)
    /\ vpc' = "returned"
    /\ UNCHANGED <<raw_actions, idx, raw, parsed, seen_action_ids, verror>>
    /\ UNCHANGED outside_validator

ValidatorNext ==
    \/ ReturnEmptyForNonList
    \/ ParseEntry
    \/ ReturnSorted

SpecValidator == ValidatorInit /\ [][ValidatorNext]_vars

(***************************************************************************)
(* Properties of parse_action_events.                                      *)
(***************************************************************************)
\* (a.at_ms, a.source_index, a.id) <= (b.at_ms, b.source_index, b.id)
SortKeyAtMost(a, b) ==
    \/ a.at_ms < b.at_ms
    \/ a.at_ms = b.at_ms /\ a.source_index < b.source_index
    \/ a.at_ms = b.at_ms /\ a.source_index = b.source_index /\ IdRank(a.id) <= IdRank(b.id)

\* the entry of the input list an event was made from
MadeFromItsEntry(e) ==
    /\ e.source_index \in 0..(Len(raw_actions.items) - 1)
    /\ raw_actions.items[e.source_index + 1].is_dict
    /\ e.id = ActionIdOf(raw_actions.items[e.source_index + 1], e.source_index)

\* C8: the list parse_action_events returns holds exactly the accepted events,
\* in ascending order of (at_ms, source_index, id); source_index is the position
\* of the entry in the input list, so events with the same at_ms keep the order
\* they had in the input.
C8_SortedBySourceOrder ==
    vpc = "returned" =>
        /\ Len(vresult) = Len(parsed)
        /\ {vresult[k] : k \in 1..Len(vresult)} = {parsed[k] : k \in 1..Len(parsed)}
        /\ \A k \in 1..Len(vresult) : MadeFromItsEntry(vresult[k])
        /\ \A a \in 1..Len(vresult) : \A b \in (a + 1)..Len(vresult) :
              /\ SortKeyAtMost(vresult[a], vresult[b])
              /\ vresult[a].at_ms = vresult[b].at_ms
                    => vresult[a].source_index < vresult[b].source_index

\* a returned list in which two events share their at_ms and the one that came
\* first in the input has the greater id
C8_Witness ==
    /\ vpc = "returned"
    /\ \E a \in 1..Len(vresult) : \E b \in (a + 1)..Len(vresult) :
          /\ vresult[a].at_ms = vresult[b].at_ms
          /\ IdRank(vresult[a].id) > IdRank(vresult[b].id)

ParseFinished == vpc \in {"returned", "raised", "crashed"}

\* entries number i and j (1-based) are objects that resolve to the same id
SameActionId(items, i, j) ==
    /\ items[i].is_dict
    /\ items[j].is_dict
    /\ ActionIdOf(items[i], i - 1) = ActionIdOf(items[j], j - 1)

HasDuplicateIds(items) ==
    \E j \in 1..Len(items) : \E i \in 1..(j - 1) : SameActionId(items, i, j)

\* 0-based index of the first entry that repeats the id of an earlier entry
FirstRepeat(items) ==
    (CHOOSE j \in 1..Len(items) :
        /\ \E i \in 1..(j - 1) : SameActionId(items, i, j)
        /\ \A j2 \in 1..(j - 1) : ~\E i \in 1..(j2 - 1) : SameActionId(items, i, j2)) - 1

DuplicateIdErrorAt(j) ==
    /\ vpc = "raised"
    /\ verror.text = "duplicate action id"
    /\ verror.index = j
    /\ verror.action_id = ActionIdOf(raw_actions.items[j + 1], j)

\* C9 as stated: for every list in which two entries resolve to the same action
\* id, parse_action_events ends with the 'duplicate action id' error carrying the
\* index of the later occurrence and the duplicated id.
C9_AsStated ==
    (ParseFinished /\ raw_actions.is_list /\ HasDuplicateIds(raw_actions.items))
        => DuplicateIdErrorAt(FirstRepeat(raw_actions.items))

\* C9: for every list in which two entries resolve to the same action id,
\* parse_action_events returns no list; it stops at the first entry it rejects,
\* which is the repeated entry or an entry before it, and when it gets as far as
\* the repeated entry it raises 'duplicate action id' with the index of that
\* entry and the duplicated id.
C9_DuplicateIdsRejected ==
    (ParseFinished /\ raw_actions.is_list /\ HasDuplicateIds(raw_actions.items))
        => /\ vpc # "returned"
           /\ idx <= FirstRepeat(raw_actions.items)
           /\ idx = FirstRepeat(raw_actions.items)
                 => DuplicateIdErrorAt(FirstRepeat(raw_actions.items))

\* the duplicate error raised for an entry whose defaulted id repeats an
\* explicit id
C9_Witness ==
    /\ raw_actions.is_list
    /\ HasDuplicateIds(raw_actions.items)
    /\ DuplicateIdErrorAt(FirstRepeat(raw_actions.items))
    /\ raw.head.id = ""

EventInRange(e) ==
    /\ e.action \in SUPPORTED_ACTIONS
    /\ e.at_ms >= 0
    /\ e.timeout_ms \in MIN_ACTION_TIMEOUT_MS..MAX_ACTION_TIMEOUT_MS
    /\ e.retries \in MIN_ACTION_RETRIES..MAX_ACTION_RETRIES
    /\ e.action = "wait" => (e.args.ms.k = "int" /\ e.args.ms.v \in 0..MAX_WAIT_MS)

\* the entry gives the field neither at top level nor in args
TimeoutAbsent(rest) == rest.timeout_ms.k = "none" /\ rest.args.timeout_ms.k = "none"
RetriesAbsent(rest) == rest.retries.k = "none" /\ rest.args.retries.k = "none"

\* C10: every event of a returned list has a supported action, at_ms >= 0,
\* timeout_ms in [100, 120000], retries in [0, 3] and, for a wait, args.ms in
\* [0, 120000]; the ids of the list are pairwise distinct; and an accepted entry
\* that gives no timeout_ms or no retries gets 10000 or 1.
C10_RangeInvariants ==
    /\ vpc = "returned" =>
          /\ \A k \in 1..Len(vresult) : EventInRange(vresult[k])
          /\ \A a \in 1..Len(vresult) : \A b \in 1..Len(vresult) :
                a # b => vresult[a].id # vresult[b].id
    /\ (vpc \in {"loop", "returned"} /\ idx > 0) =>
          /\ EventInRange(parsed[idx])
          /\ TimeoutAbsent(raw.rest) => parsed[idx].timeout_ms = DEFAULT_ACTION_TIMEOUT_MS
          /\ RetriesAbsent(raw.rest) => parsed[idx].retries = DEFAULT_ACTION_RETRIES

\* a returned list with a wait at the longest wait and the default timeout and
\* retries, and an event at the longest timeout
C10_Witness ==
    /\ vpc = "returned"
    /\ \E a \in 1..Len(vresult) : \E b \in 1..Len(vresult) :
          /\ vresult[a].action = "wait"
          /\ vresult[a].args.ms.v = MAX_WAIT_MS
          /\ vresult[a].timeout_ms = DEFAULT_ACTION_TIMEOUT_MS
          /\ vresult[a].retries = DEFAULT_ACTION_RETRIES
          /\ vresult[b].timeout_ms = MAX_ACTION_TIMEOUT_MS

(***************************************************************************)
(* Project store: bounded histories (storage.py).                          *)
(***************************************************************************)
MAX_DEMO_RUN_HISTORY == 50
MAX_RENDER_HISTORY == 50
\* the 500 of _history_limit
HISTORY_CEILING == 500

Min(a, b) == IF a <= b THEN a ELSE b

_coerce_int(value, default) ==
    IF value.k \in {"none", "bad"} THEN default ELSE IntOf(value)

_history_limit(value, default) ==
    IF _coerce_int(value, default) < 1 THEN default
    ELSE Min(_coerce_int(value, default), HISTORY_CEILING)

TrimHistoryKeepsAll(records, limit) == records

_trim_history(records, limit) ==
    IF Len(records) <= limit THEN records
    ELSE SubSeq(records, Len(records) - limit + 1, Len(records))

\* Ids are kept by where they come from and the time they were made at.
NoId == [src |-> "none", n |-> 0]
\* f"render_{utc_now_iso()...}" / f"demo_{utc_now_iso()...}" made inside normalize_*
GeneratedId(now) == [src |-> "generated", n |-> now]

\* the id the record has is not looked at
NormalizedIdFromClock(record_id, fallback, now) ==
    IF fallback # NoId THEN fallback ELSE GeneratedId(now)

\* run_id / render_id of a normalized record (lines 87-92 and 116-121)
NormalizedId(record_id, fallback, now) ==
    IF record_id # NoId THEN record_id
    ELSE IF fallback # NoId THEN fallback
    ELSE GeneratedId(now)

\* error_summary as _normalize_error_summary leaves it, for a record without
\* executions: has_error, message and failed_actions
_normalize_error_summary(record) ==
    [has_error |-> record.error_summary.has_error
                    \/ (IF record.error_summary.message # "" THEN record.error_summary.message
                        ELSE record.error) # ""
                    \/ record.failed_actions > 0,
     message |-> IF record.error_summary.message # "" THEN record.error_summary.message
                 ELSE record.error,
     failed_actions |-> record.failed_actions]

normalize_demo_run_record(record, run_id_fallback, now) ==
    [record EXCEPT
        !.run_id = NormalizedId(record.run_id, run_id_fallback, now),
        !.created_at = IF record.created_at # 0 THEN record.created_at ELSE now,
        !.mode = IF record.mode # "" THEN record.mode ELSE "demo_capture_unknown",
        !.error_summary = _normalize_error_summary(record)]

normalize_render_record(record, render_id_fallback, now) ==
    [record EXCEPT
        !.render_id = NormalizedId(record.render_id, render_id_fallback, now),
        !.created_at = IF record.created_at # 0 THEN record.created_at ELSE now,
        !.mode = IF record.mode # "" THEN record.mode ELSE "tts_only",
        !.status = IF record.status # "" THEN record.status ELSE "completed",
        !.error_summary = _normalize_error_summary(record)]

\* proj["renders"] and proj["demo"]; present is FALSE when the key holds no dict
_default_renders == [present |-> TRUE, last_render_id |-> NoId, history |-> <<>>]
_default_demo_state == [present |-> TRUE, last_run_id |-> NoId, runs |-> <<>>]
MissingRenders == [_default_renders EXCEPT !.present = FALSE]
MissingDemoState == [_default_demo_state EXCEPT !.present = FALSE]

LastIdStale(normalized_id, last_id) == last_id

\* str(normalized.get("run_id") or demo_state.get("last_run_id")) and its
\* render twin (lines 530 and 554)
LastId(normalized_id, last_id) ==
    IF normalized_id # NoId THEN normalized_id ELSE last_id

\* append_demo_run: the project afterwards and the record returned
append_demo_run(p, run_record, run_id, history_limit, now) ==
    LET demo_state == IF p.demo.present THEN p.demo ELSE _default_demo_state
        normalized == normalize_demo_run_record(run_record, run_id, now)
        runs == _trim_history(Append(demo_state.runs, normalized),
                              _history_limit(history_limit, MAX_DEMO_RUN_HISTORY))
    IN  [proj |-> [p EXCEPT !.demo =
                      [present |-> TRUE,
                       last_run_id |-> LastId(normalized.run_id, demo_state.last_run_id),
                       runs |-> runs]],
         normalized |-> normalized]

\* the new record put before the ones there
AppendRenderHistoryInFront(p, render_record, render_id, history_limit, now) ==
    LET renders == IF p.renders.present THEN p.renders ELSE _default_renders
        normalized == normalize_render_record(render_record, render_id, now)
    IN  [proj |-> [p EXCEPT !.renders =
                      [present |-> TRUE,
                       last_render_id |-> LastId(normalized.render_id, renders.last_render_id),
                       history |-> <<normalized>> \o renders.history]],
         normalized |-> normalized]

\* append_render_history: the project afterwards and the record returned
append_render_history(p, render_record, render_id, history_limit, now) ==
    LET renders == IF p.renders.present THEN p.renders ELSE _default_renders
        normalized == normalize_render_record(render_record, render_id, now)
        history == _trim_history(Append(renders.history, normalized),
                                 _history_limit(history_limit, MAX_RENDER_HISTORY))
    IN  [proj |-> [p EXCEPT !.renders =
                      [present |-> TRUE,
                       last_render_id |-> LastId(normalized.render_id, renders.last_render_id),
                       history |-> history]],
         normalized |-> normalized]

(***************************************************************************)
(* Bounded histories: the machine. One in-memory project, and for each of  *)
(* the two histories a call site that appends to it.                       *)
(***************************************************************************)
\* appends made to a history beyond its limit
ExtraAppends == 2
\* a history limit up to which every id source is tried
SmallLimit == 2

\* the history_limit argument: the default of the signature, None, no number,
\* below 1, small, above the default, above the ceiling
LimitSamples ==
    {IntV(MAX_RENDER_HISTORY), NoneV, BadV, IntV(0), IntV(-1), IntV(1), FloatV(25),
     IntV(MAX_RENDER_HISTORY + 1), IntV(HISTORY_CEILING + 1)}
\* where the id of a record comes from: the record, the run_id / render_id
\* argument, both (as the pipelines call it), or neither
IdSources == {"record", "fallback", "both", "neither"}

IsSmallSite(site) == _history_limit(site.history_limit, MAX_RENDER_HISTORY) <= SmallLimit
CallSites ==
    {site \in [history_limit : LimitSamples, id_from : IdSources] :
        IsSmallSite(site) \/ site.id_from = "both"}
\* at least one of the two histories has a small limit
CallSitePairs ==
    {pair \in [renders : CallSites, demo : CallSites] :
        IsSmallSite(pair.renders) \/ IsSmallSite(pair.demo)}

RecordIdAt(site, now) ==
    IF site.id_from \in {"record", "both"} THEN [src |-> "record", n |-> now] ELSE NoId
FallbackIdAt(site, now) ==
    IF site.id_from \in {"fallback", "both"} THEN [src |-> "fallback", n |-> now] ELSE NoId

NoErrorSummary == [has_error |-> FALSE, message |-> "", failed_actions |-> 0]
NoCorrelation == [trigger |-> "", unified_run_id |-> NoId, demo_run_id |-> NoId,
                  render_id |-> NoId, render_mode |-> "", source_video_path |-> ""]

\* the records handed to the append calls, before normalization
NoCounts == [segments |-> 0, cache_hits |-> 0, generated_segments |-> 0]
RawRenderRecord(render_id, created_at, mode, counts, correlation) ==
    [render_id |-> render_id, created_at |-> created_at, status |-> "completed",
     mode |-> mode, segments |-> counts.segments, cache_hits |-> counts.cache_hits,
     generated_segments |-> counts.generated_segments, error |-> "", failed_actions |-> 0,
     error_summary |-> NoErrorSummary, correlation |-> correlation]
RawDemoRunRecord(run_id, created_at, ok, mode, error, correlation) ==
    [run_id |-> run_id, created_at |-> created_at, ok |-> ok, mode |-> mode,
     error |-> error, failed_actions |-> 0,
     error_summary |-> NoErrorSummary, correlation |-> correlation]

\* the number of the next call of each call site, which stands for its time
RenderCallNow == Len(appended.renders) + 1
DemoCallNow == Len(appended.demo) + 1

HistoryInit ==
    /\ proj \in [renders : {_default_renders, MissingRenders},
                 demo : {_default_demo_state, MissingDemoState}]
    /\ call_site \in CallSitePairs
    /\ appended = [renders |-> <<>>, demo |-> <<>>]
    /\ RunnerIdle
    /\ ValidatorIdle
    /\ TtsIdle
    /\ StoreIdle
    /\ FsIdle
    /\ CallIdle

AppendRenderHistory ==
    /\ Len(appended.renders)
          < _history_limit(call_site.renders.history_limit, MAX_RENDER_HISTORY) + ExtraAppends
    /\ LET r == append_render_history(proj,
                    RawRenderRecord(RecordIdAt(call_site.renders, RenderCallNow), 0, "", NoCounts,
                                    NoCorrelation),
                    FallbackIdAt(call_site.renders, RenderCallNow),
                    call_site.renders.history_limit, RenderCallNow)
       IN  /\ proj' = r.proj
           /\ appended' = [appended EXCEPT !.renders = Append(@, r.normalized)]
    /\ UNCHANGED call_site
    /\ UNCHANGED outside_history

AppendDemoRun ==
    /\ Len(appended.demo)
          < _history_limit(call_site.demo.history_limit, MAX_DEMO_RUN_HISTORY) + ExtraAppends
    /\ LET r == append_demo_run(proj,
                    RawDemoRunRecord(RecordIdAt(call_site.demo, DemoCallNow), 0, TRUE, "", "",
                                     NoCorrelation),
                    FallbackIdAt(call_site.demo, DemoCallNow),
                    call_site.demo.history_limit, DemoCallNow)
       IN  /\ proj' = r.proj
           /\ appended' = [appended EXCEPT !.demo = Append(@, r.normalized)]
    /\ UNCHANGED call_site
    /\ UNCHANGED outside_history

HistoryNext ==
    \/ AppendRenderHistory
    \/ AppendDemoRun

SpecHistory == HistoryInit /\ [][HistoryNext]_vars

(***************************************************************************)
(* Properties of the bounded histories.                                    *)
(***************************************************************************)
\* the last n elements of s
LastN(s, n) == SubSeq(s, Len(s) - n + 1, Len(s))

\* the cap the histories are said to have for a given history_limit
ClaimedLimit(history_limit) ==
    IF history_limit.k \in {"none", "bad"} THEN 50
    ELSE IF IntOf(history_limit) < 1 THEN 50
    ELSE Min(IntOf(history_limit), 500)

\* C11: after n append_render_history (append_demo_run) calls on one in-memory
\* project, renders.history (demo.runs) is exactly the last min(n, L) records
\* appended, in append order, where L is 50 for the default limit and for a
\* limit below 1 and min(history_limit, 500) otherwise; so it never holds more
\* than 500 records, and never more than 50 under the default limit.
C11_HistoryIsBoundedTail ==
    /\ Len(appended.renders) > 0 =>
          /\ proj.renders.history
                = LastN(appended.renders,
                        Min(Len(appended.renders), ClaimedLimit(call_site.renders.history_limit)))
          /\ Len(proj.renders.history) <= 500
          /\ call_site.renders.history_limit = IntV(50) => Len(proj.renders.history) <= 50
    /\ Len(appended.demo) > 0 =>
          /\ proj.demo.runs
                = LastN(appended.demo,
                        Min(Len(appended.demo), ClaimedLimit(call_site.demo.history_limit)))
          /\ Len(proj.demo.runs) <= 500
          /\ call_site.demo.history_limit = IntV(50) => Len(proj.demo.runs) <= 50

\* more than 500 render records appended under a limit above 500, with demo runs
\* appended to the same project
C11_Witness ==
    /\ Len(appended.renders) > 500
    /\ IntOf(call_site.renders.history_limit) > 500
    /\ Len(proj.renders.history) = 500
    /\ Len(appended.demo) > Len(proj.demo.runs)

\* C12: after every append_render_history call renders.last_render_id is the
\* render_id of the last element of renders.history, and after every
\* append_demo_run call demo.last_run_id is the run_id of the last element of
\* demo.runs.
C12_LastIdIsNewest ==
    /\ Len(appended.renders) > 0 =>
          /\ proj.renders.history # <<>>
          /\ proj.renders.last_render_id
                = proj.renders.history[Len(proj.renders.history)].render_id
          /\ proj.renders.last_render_id = appended.renders[Len(appended.renders)].render_id
    /\ Len(appended.demo) > 0 =>
          /\ proj.demo.runs # <<>>
          /\ proj.demo.last_run_id = proj.demo.runs[Len(proj.demo.runs)].run_id
          /\ proj.demo.last_run_id = appended.demo[Len(appended.demo)].run_id

\* several appends to both histories, the render ids made by the normalization
\* and the run ids taken from the run_id argument
C12_Witness ==
    /\ Len(appended.renders) > 1
    /\ Len(appended.demo) > 1
    /\ proj.renders.last_render_id = [src |-> "generated", n |-> Len(appended.renders)]
    /\ proj.demo.last_run_id.src = "fallback"

(***************************************************************************)
(* TTS: cache, tts_or_silence (tts/cache.py, pipeline/tts.py).             *)
(***************************************************************************)
\* " ".join((text or "").split()) on the texts the model uses
NormalizeText(text) == IF text = "hi  there" THEN "hi there" ELSE text

\* settings.tts_mode
TTS_MODE == "chatterbox_tts_json"

\* resolve_tts_params for the profiles the model uses
ParamsOf(profile_id) == [voice |-> IF profile_id = "default" THEN "alloy" ELSE "echo"]

\* The sha256 of the payload is kept as the payload: equal keys are equal
\* payloads.
build_tts_cache_key(text, params, endpoint, mode, prompt_sha, model_signature) ==
    [text |-> NormalizeText(text), params |-> params, endpoint |-> endpoint,
     mode |-> mode, audio_prompt_sha256 |-> prompt_sha, model_signature |-> model_signature]

\* the key of a request for a text under a profile (tts_only.py:130-137,
\* main.py:433-440); the profiles of the model have no audio prompt
RequestKey(text, profile_id, endpoint) ==
    build_tts_cache_key(text, ParamsOf(profile_id), endpoint, TTS_MODE, "None",
                        "chatterbox_tts_json:chatterbox")

\* cache_dir / f"{cache_key}.wav"
tts_cache_path(cache_dir, cache_key) == [dir |-> cache_dir, key |-> cache_key]

\* a wav file: its length and whether it is generated silence
Audio(ms, silent) == [ms |-> ms, silent |-> silent]

\* restore_tts_cache: whether the cache file exists
restore_tts_cache(cache, cache_file) == \E f \in cache : f.path = cache_file
CachedAudio(cache, cache_file) == (CHOOSE f \in cache : f.path = cache_file).audio

StoreTtsCacheSkipped(cache, cache_file, audio) == cache

\* store_tts_cache: cache_file.write_bytes(out_file.read_bytes())
store_tts_cache(cache, cache_file, audio) ==
    {f \in cache : f.path # cache_file} \cup {[path |-> cache_file, audio |-> audio]}

\* What the world does to one tts_or_silence call: the length of the audio the
\* endpoint returns (0: the request, the post-processing or the probe fails),
\* and whether ffmpeg can generate silence.
TtsWorlds == [audio_ms : {0, 1000, 3000}, silence_ok : BOOLEAN]

TtsFailurePropagates(world, duration_ms, endpoint) ==
    IF endpoint # "" /\ world.audio_ms > 0
    THEN [raised |-> FALSE, error |-> "", called |-> TRUE, failed |-> FALSE,
          audio |-> Audio(Min(world.audio_ms, duration_ms), FALSE)]
    ELSE IF endpoint # ""
    THEN [raised |-> TRUE, error |-> "tts call failed", called |-> TRUE, failed |-> TRUE,
          audio |-> Audio(0, TRUE)]
    ELSE [raised |-> ~world.silence_ok,
          error |-> IF world.silence_ok THEN "" ELSE "ffmpeg silence wav failed",
          called |-> FALSE, failed |-> FALSE, audio |-> Audio(duration_ms, TRUE)]

\* tts_or_silence: whether it raised and with what, whether call_tts was invoked
\* and failed, and the audio left at out_path
tts_or_silence(world, duration_ms, endpoint) ==
    IF endpoint # "" /\ world.audio_ms > 0
    THEN \* the audio is trimmed to duration_ms when it is longer
         [raised |-> FALSE, error |-> "", called |-> TRUE, failed |-> FALSE,
          audio |-> Audio(Min(world.audio_ms, duration_ms), FALSE)]
    ELSE IF endpoint # ""
    THEN \* except Exception: generate_silence_wav
         [raised |-> ~world.silence_ok,
          error |-> IF world.silence_ok THEN "" ELSE "ffmpeg silence wav failed",
          called |-> TRUE, failed |-> TRUE, audio |-> Audio(duration_ms, TRUE)]
    ELSE [raised |-> ~world.silence_ok,
          error |-> IF world.silence_ok THEN "" ELSE "ffmpeg silence wav failed",
          called |-> FALSE, failed |-> FALSE, audio |-> Audio(duration_ms, TRUE)]

\* the silence made for a failed call is left out of the cache
CachedTtsForgettingSilence(cache, cache_dir, text, profile_id, duration_ms, endpoint, world) ==
    LET cache_file == tts_cache_path(cache_dir, RequestKey(text, profile_id, endpoint))
        used_cache == restore_tts_cache(cache, cache_file)
        made == tts_or_silence(world, duration_ms, endpoint)
    IN  IF used_cache
        THEN [raised |-> FALSE, error |-> "", cache_hit |-> TRUE, called |-> FALSE,
              failed |-> FALSE, audio |-> CachedAudio(cache, cache_file),
              cache_file |-> cache_file, cache |-> cache]
        ELSE [raised |-> made.raised, error |-> made.error, cache_hit |-> FALSE,
              called |-> made.called, failed |-> made.failed, audio |-> made.audio,
              cache_file |-> cache_file,
              cache |-> IF made.raised \/ made.failed THEN cache
                        ELSE store_tts_cache(cache, cache_file, made.audio)]

\* One cache lookup and, on a miss, one tts_or_silence and store, as the segment
\* loop and the preview endpoint both do it.
CachedTts(cache, cache_dir, text, profile_id, duration_ms, endpoint, world) ==
    LET cache_file == tts_cache_path(cache_dir, RequestKey(text, profile_id, endpoint))
        used_cache == restore_tts_cache(cache, cache_file)
        made == tts_or_silence(world, duration_ms, endpoint)
    IN  IF used_cache
        THEN [raised |-> FALSE, error |-> "", cache_hit |-> TRUE, called |-> FALSE,
              failed |-> FALSE, audio |-> CachedAudio(cache, cache_file),
              cache_file |-> cache_file, cache |-> cache]
        ELSE [raised |-> made.raised, error |-> made.error, cache_hit |-> FALSE,
              called |-> made.called, failed |-> made.failed, audio |-> made.audio,
              cache_file |-> cache_file,
              cache |-> IF made.raised THEN cache
                        ELSE store_tts_cache(cache, cache_file, made.audio)]

\* what is remembered of one request beside what the code records: the cache
\* file it asked for, whether an earlier request that returned asked for that
\* file, or for a file of that key in any cache directory, and what happened
\* to its TTS call
Observed(r, asked) ==
    [cache_file |-> r.cache_file,
     repeated |-> r.cache_file \in asked,
     repeated_key |-> \E f \in asked : f.key = r.cache_file.key,
     called |-> r.called, failed |-> r.failed, silent |-> r.audio.silent]

\* seg["tts"] (tts_only.py:159-177) without paths and times; observed is not
\* part of it
SegmentTts(text, profile_id, r, asked) ==
    [status |-> "ok",
     audio_duration_ms |-> r.audio.ms,
     attempts |-> <<[text |-> text, params |-> ParamsOf(profile_id),
                     result |-> [status |-> "ok", audio_duration_ms |-> r.audio.ms,
                                 cache_hit |-> r.cache_hit]]>>,
     observed |-> Observed(r, asked)]

(***************************************************************************)
(* TTS: the render pipeline and the preview endpoint as a machine.         *)
(***************************************************************************)
\* most segments of the project, renders of it and preview requests
MaxSegments == 2
MaxRenders == 2
MaxPreviews == 2

\* segments: two texts that differ in blanks only, and one of them under a
\* second profile and with a longer slot
SegmentShapes ==
    {[text |-> "hi there", profile |-> "default", duration_ms |-> 1000],
     [text |-> "hi  there", profile |-> "default", duration_ms |-> 1000],
     [text |-> "hi there", profile |-> "alt", duration_ms |-> 2000]}
\* what a preview request asks for
PreviewShapes == [text : {"hi there", "hi  there"}, profile : {"default"}, duration_ms : {1000}]

\* the project document as init_project writes it, with a timeline imported;
\* the timeline, the demo context and the profiles are kept as the number of
\* the writer that wrote them
InitialProject ==
    [timeline |-> 0, settings |-> [demo_context |-> 0, narration_mode |-> "unified"],
     tts_profiles |-> 0,
     renders |-> _default_renders, demo |-> _default_demo_state]

\* the result of run_tts_only_pipeline (tts_only.py:242-254), or the error it
\* raised; rerender: a render of this project had completed before
RenderResponse(ok, error, counts, tts, rerender) ==
    [kind |-> "render", ok |-> ok, error |-> error,
     segments |-> counts.segments, cache_hits |-> counts.cache_hits,
     generated_segments |-> counts.generated_segments,
     tts |-> tts, rerender |-> rerender]

\* TTSPreviewResponse (main.py:461-468), or the error raised
PreviewResponse(ok, error, r, asked) ==
    [kind |-> "preview", ok |-> ok, error |-> error,
     audio_duration_ms |-> r.audio.ms, cache_hit |-> r.cache_hit,
     observed |-> Observed(r, asked)]

\* the profiles of the project after ensure_tts_profiles
ProjectProfiles == {"default", "alt"}

\* resolve_tts_profile: KeyError for an id that names no profile
resolve_tts_profile(profile_id) ==
    [raised |-> profile_id \notin ProjectProfiles, error |-> "Unknown TTS profile"]

\* whether source_video_path or the project's input.mp4 exists when a render
\* starts
SourceVideos == {"found", "missing"}

TtsInit ==
    /\ disk = InitialProject
    /\ tts_endpoint \in {"", "http://tts"}
    /\ timeline_segments \in SeqsUpTo(SegmentShapes, MaxSegments)
    /\ tts_cache = {}
    /\ requests = {}
    /\ renders_started = 0
    /\ previews_made = 0
    /\ rendered = FALSE
    /\ tpc = "idle"
    /\ seg_idx = 0
    /\ seg_tts = <<>>
    /\ cache_hits = 0
    /\ generated = 0
    /\ response = [kind |-> "none"]
    /\ RunnerIdle
    /\ ValidatorIdle
    /\ HistoryIdle
    /\ StoreIdle
    /\ FsIdle
    /\ CallIdle

\* run_tts_only_pipeline up to the segment loop (lines 83-120)
StartRender ==
    /\ tpc = "idle"
    /\ renders_started < MaxRenders
    /\ renders_started' = renders_started + 1
    /\ \E source_video \in SourceVideos :
         IF source_video = "missing"
         THEN /\ response' = RenderResponse(FALSE, "Source video not found",
                                            NoCounts, <<>>, rendered)
              /\ tpc' = "idle"
         ELSE IF timeline_segments = <<>>
         THEN /\ response' = RenderResponse(FALSE, "No narration events available in timeline",
                                            NoCounts, <<>>, rendered)
              /\ tpc' = "idle"
         ELSE /\ response' = response
              /\ tpc' = "segments"
    /\ seg_idx' = 0
    /\ seg_tts' = <<>>
    /\ cache_hits' = 0
    /\ generated' = 0
    /\ UNCHANGED <<disk, tts_endpoint, timeline_segments, tts_cache, requests, previews_made,
                   rendered>>
    /\ UNCHANGED outside_tts

\* one iteration of the segment loop (lines 122-178)
RenderSegment ==
    /\ tpc = "segments"
    /\ seg_idx < Len(timeline_segments)
    /\ \E world \in TtsWorlds :
         LET seg == timeline_segments[seg_idx + 1]
             r == CachedTts(tts_cache, "tts", seg.text, seg.profile, seg.duration_ms,
                            tts_endpoint, world)
             this == SegmentTts(seg.text, seg.profile, r, requests)
         IN  IF resolve_tts_profile(seg.profile).raised
             THEN /\ tpc' = "idle"
                  /\ response' = RenderResponse(FALSE, resolve_tts_profile(seg.profile).error,
                                                NoCounts, seg_tts, rendered)
                  /\ UNCHANGED <<tts_cache, cache_hits, generated, seg_idx, seg_tts, requests>>
             ELSE
             /\ tts_cache' = r.cache
             /\ cache_hits' = cache_hits + (IF r.cache_hit THEN 1 ELSE 0)
             /\ generated' = generated + (IF r.cache_hit THEN 0 ELSE 1)
             /\ IF r.raised
                THEN /\ tpc' = "idle"
                     /\ response' = RenderResponse(FALSE, r.error, NoCounts,
                                                   Append(seg_tts, this), rendered)
                     /\ UNCHANGED <<seg_idx, seg_tts, requests>>
                ELSE /\ tpc' = "segments"
                     /\ response' = response
                     /\ seg_idx' = seg_idx + 1
                     /\ seg_tts' = Append(seg_tts, this)
                     /\ requests' = requests \cup {r.cache_file}
    /\ UNCHANGED <<disk, tts_endpoint, timeline_segments, renders_started, previews_made,
                   rendered>>
    /\ UNCHANGED outside_tts

\* the render record appended and the project saved before the mix is tried
FinishRenderSavedBeforeMix ==
    /\ tpc = "segments"
    /\ seg_idx = Len(timeline_segments)
    /\ \E mix_ok \in BOOLEAN :
         LET counts == [segments |-> Len(timeline_segments), cache_hits |-> cache_hits,
                        generated_segments |-> generated]
             render_id == [src |-> "record", n |-> renders_started]
             r == append_render_history(disk,
                      RawRenderRecord(render_id, renders_started, "tts_only", counts,
                                      NoCorrelation),
                      render_id, IntV(MAX_RENDER_HISTORY), renders_started)
         IN  /\ disk' = r.proj
             /\ IF mix_ok
                THEN /\ response' = RenderResponse(TRUE, "", counts, seg_tts, rendered)
                     /\ rendered' = TRUE
                ELSE /\ response' = RenderResponse(FALSE, "ffmpeg failed", NoCounts, seg_tts,
                                                   rendered)
                     /\ rendered' = rendered
    /\ tpc' = "idle"
    /\ UNCHANGED <<tts_endpoint, timeline_segments, tts_cache, requests, renders_started,
                   previews_made,
                   seg_idx, seg_tts, cache_hits, generated>>
    /\ UNCHANGED outside_tts

\* mix, mux, render record, save (lines 181-254); the project loaded at line 95
\* is the one on disk, no other writer being modelled here
FinishRender ==
    /\ tpc = "segments"
    /\ seg_idx = Len(timeline_segments)
    /\ \E mix_ok \in BOOLEAN :
         LET counts == [segments |-> Len(timeline_segments), cache_hits |-> cache_hits,
                        generated_segments |-> generated]
             render_id == [src |-> "record", n |-> renders_started]
             r == append_render_history(disk,
                      RawRenderRecord(render_id, renders_started, "tts_only", counts,
                                      NoCorrelation),
                      render_id, IntV(MAX_RENDER_HISTORY), renders_started)
         IN  IF mix_ok
             THEN /\ disk' = r.proj
                  /\ response' = RenderResponse(TRUE, "", counts, seg_tts, rendered)
                  /\ rendered' = TRUE
             ELSE /\ disk' = disk
                  /\ response' = RenderResponse(FALSE, "ffmpeg failed", NoCounts, seg_tts,
                                                rendered)
                  /\ rendered' = rendered
    /\ tpc' = "idle"
    /\ UNCHANGED <<tts_endpoint, timeline_segments, tts_cache, requests, renders_started,
                   previews_made,
                   seg_idx, seg_tts, cache_hits, generated>>
    /\ UNCHANGED outside_tts

\* POST /projects/{id}/tts/preview (main.py:415-468)
TtsPreview ==
    /\ tpc \in {"idle", "segments"}
    /\ previews_made < MaxPreviews
    /\ previews_made' = previews_made + 1
    /\ \E shape \in PreviewShapes : \E world \in TtsWorlds :
         LET r == CachedTts(tts_cache, "tts_preview", shape.text, shape.profile,
                            shape.duration_ms, tts_endpoint, world)
         IN  /\ tts_cache' = r.cache
             /\ requests' = IF r.raised THEN requests ELSE requests \cup {r.cache_file}
             /\ response' = PreviewResponse(~r.raised, r.error, r, requests)
    /\ UNCHANGED <<disk, tts_endpoint, timeline_segments, renders_started, rendered, tpc, seg_idx,
                   seg_tts, cache_hits, generated>>
    /\ UNCHANGED outside_tts

TtsNext ==
    \/ StartRender
    \/ RenderSegment
    \/ FinishRender
    \/ TtsPreview

SpecTts == TtsInit /\ [][TtsNext]_vars

(***************************************************************************)
(* Claims about the TTS cache and the silence fallback.                    *)
(***************************************************************************)
\* seg["tts"] of the segments the render in progress, or the render that
\* returned last, has gone through, in segment order
SegmentsDone == IF tpc = "segments" THEN seg_tts
                ELSE IF response.kind = "render" THEN response.tts ELSE <<>>
\* the segments among them whose audio was produced: all but the one the
\* render stopped in
SegmentsReturned ==
    IF tpc # "segments" /\ response.kind = "render" /\ ~response.ok
       /\ response.error # "ffmpeg failed" /\ response.tts # <<>>
    THEN SubSeq(response.tts, 1, Len(response.tts) - 1)
    ELSE SegmentsDone
\* every request seen: what is remembered of it and the cache_hit it reports
OutcomesSeen ==
    {[observed |-> SegmentsDone[i].observed,
      cache_hit |-> SegmentsDone[i].attempts[1].result.cache_hit] :
         i \in 1..Len(SegmentsDone)}
    \cup (IF response.kind = "preview"
          THEN {[observed |-> response.observed, cache_hit |-> response.cache_hit]}
          ELSE {})
\* a render that returned after an earlier render of the project had completed
IsRerender == response.kind = "render" /\ response.ok /\ response.rerender

\* C13: a request for a cache file that an earlier request, which returned,
\* asked for (same key, same cache directory) is a cache hit and makes no TTS
\* call; a render that follows a completed render of the unchanged project
\* reports cache_hits = segments and generated_segments = 0.
C13_CacheDeterminism ==
    /\ \A o \in OutcomesSeen :
         o.observed.repeated => o.cache_hit /\ ~o.observed.called
    /\ IsRerender => /\ response.cache_hits = response.segments
                     /\ response.generated_segments = 0

\* C13 as stated: equal key inputs alone make the second request a cache hit,
\* whether it is a render segment or a preview.
C13_AsStated ==
    \A o \in OutcomesSeen :
        o.observed.repeated_key => o.cache_hit /\ ~o.observed.called

\* a preview repeated and served from the cache, after a second render that
\* took every segment from the cache
C13_Witness ==
    /\ response.kind = "preview"
    /\ response.observed.repeated
    /\ response.cache_hit
    /\ Len(disk.renders.history) = 2
    /\ disk.renders.history[2].segments > 0
    /\ disk.renders.history[2].cache_hits = disk.renders.history[2].segments
    /\ disk.renders.history[1].generated_segments > 0

\* why a render may fail
RenderFailures ==
    {"Source video not found", "No narration events available in timeline",
     "Unknown TTS profile", "ffmpeg silence wav failed", "ffmpeg failed"}

FailedSegments == {i \in 1..Len(SegmentsReturned) : SegmentsReturned[i].observed.failed}
SucceededSegments ==
    {i \in 1..Len(SegmentsReturned) :
        SegmentsReturned[i].observed.called /\ ~SegmentsReturned[i].observed.failed}

\* C15: the result recorded in attempts[] for a segment whose TTS call failed
\* differs from the result recorded for a segment whose TTS call succeeded.
C15_AsStated ==
    \A i \in FailedSegments : \A j \in SucceededSegments :
        SegmentsReturned[i].attempts[1].result # SegmentsReturned[j].attempts[1].result

\* a render with a segment whose TTS call failed and one whose call succeeded
C15_Witness ==
    /\ response.kind = "render"
    /\ response.ok
    /\ FailedSegments # {}
    /\ SucceededSegments # {}

(***************************************************************************)
(* The writers of one project: the unified pipeline (pipeline/unified.py), *)
(* the demo capture job (demo_runner/jobs.py), the render job              *)
(* (pipeline/tts_only.py) and the API edits (main.py). Each loads the      *)
(* whole document, changes its copy and saves the whole copy.              *)
(***************************************************************************)
\* most writers running on the project at once
MaxWriters == 2

\* What run_demo_capture may hand back: ok and error, the raw_demo_mp4 entry
\* ("None" or a path), the state of the file at that path, and
\* artifact_summary: not a dict, without the flag, or with it. A failed
\* capture comes with or without an error text and a recording; a good one
\* with every combination of recording, file and flag.
DemoResults ==
    [ok : {FALSE}, error : {"", "boom"}, raw_demo_mp4 : {"None"},
     file : {"missing"}, raw_demo_playable : {"no_summary"}]
    \cup [ok : {FALSE}, error : {"", "boom"}, raw_demo_mp4 : {"raw_demo.mp4"},
          file : {"data"}, raw_demo_playable : {"false"}]
    \cup [ok : {TRUE}, error : {""}, raw_demo_mp4 : {"None", "raw_demo.mp4"},
          file : {"missing", "empty", "data"},
          raw_demo_playable : {"no_summary", "absent", "true", "false"}]
NoDemoResult ==
    [ok |-> FALSE, error |-> "", raw_demo_mp4 |-> "None", file |-> "missing",
     raw_demo_playable |-> "no_summary"]

SelectSourceIgnoringPlayable(demo_result) ==
    IF demo_result.raw_demo_mp4 # "None" /\ demo_result.file = "data"
    THEN demo_result.raw_demo_mp4
    ELSE "input.mp4"

\* unified.py:71-83
SelectSource(demo_result) ==
    LET raw_demo_playable ==
            IF demo_result.raw_demo_playable \in {"no_summary", "absent"} THEN "None"
            ELSE demo_result.raw_demo_playable
        candidate_ok == demo_result.file = "data"
    IN  IF demo_result.raw_demo_mp4 # "None"
        THEN IF raw_demo_playable = "true" /\ candidate_ok THEN demo_result.raw_demo_mp4
             ELSE IF raw_demo_playable = "None" /\ candidate_ok
                  THEN demo_result.raw_demo_mp4
                  ELSE "input.mp4"
        ELSE "input.mp4"

DemoErrorGeneric(demo_result) == "demo capture failed"

\* unified.py:64: str(demo_result.get("error") or "demo capture failed")
DemoError(demo_result) ==
    IF demo_result.error # "" THEN demo_result.error ELSE "demo capture failed"

\* the ids writer w makes up (utc_now_iso at its start)
UnifiedRunId(w) == [src |-> "unified", n |-> w]
DemoRunId(w) == [src |-> "demo", n |-> w]
RenderId(w) == [src |-> "render", n |-> w]

\* the record without the correlation of its caller
DemoRunRecordUncorrelated(w, demo_result, trigger, unified_run_id) ==
    RawDemoRunRecord(DemoRunId(w), w, demo_result.ok, "demo_capture", demo_result.error,
                     NoCorrelation)

\* the demo result as a run record, with the correlation the caller sets
DemoRunRecord(w, demo_result, trigger, unified_run_id) ==
    RawDemoRunRecord(DemoRunId(w), w, demo_result.ok, "demo_capture", demo_result.error,
                     [NoCorrelation EXCEPT !.trigger = trigger,
                                           !.unified_run_id = unified_run_id])

\* render_context as the unified pipeline passes it (unified.py:91-98), and
\* as a render job has it (none: tts_only.py:214-216)
RenderContext(j, w) ==
    IF j.kind = "unified"
    THEN [NoCorrelation EXCEPT !.unified_run_id = UnifiedRunId(w), !.demo_run_id = DemoRunId(w)]
    ELSE NoCorrelation

RECURSIVE LastIndexOf(_, _)
\* the last run with that run_id (for item in reversed(runs_after)), 0 if none
LastIndexOf(runs, run_id) ==
    IF runs = <<>> THEN 0
    ELSE IF runs[Len(runs)].run_id = run_id THEN Len(runs)
    ELSE LastIndexOf(SubSeq(runs, 1, Len(runs) - 1), run_id)

CorrelateRunSkipped(runs, run_id, render_id, render_mode, source_video_path) == runs

\* unified.py:105-118
CorrelateRun(runs, run_id, render_id, render_mode, source_video_path) ==
    LET i == LastIndexOf(runs, run_id)
    IN  IF i = 0 THEN runs
        ELSE [runs EXCEPT ![i].correlation.render_id = render_id,
                          ![i].correlation.render_mode = render_mode,
                          ![i].correlation.source_video_path = source_video_path]

\* a project that has a run and a render behind it
UsedProject ==
    LET a == append_demo_run(InitialProject,
                 RawDemoRunRecord(DemoRunId(0), 0, TRUE, "demo_capture", "",
                                  [NoCorrelation EXCEPT !.trigger = "api_demo_run"]),
                 DemoRunId(0), IntV(MAX_DEMO_RUN_HISTORY), 0).proj
    IN  append_render_history(a,
            RawRenderRecord(RenderId(0), 0, "tts_only", NoCounts, NoCorrelation),
            RenderId(0), IntV(MAX_RENDER_HISTORY), 0).proj

WriterKinds ==
    {"unified", "demo_job", "render_job", "edit_timeline", "edit_settings", "edit_profile"}

\* a writer before its first step
NewWriter(kind) ==
    [kind |-> kind, pc |-> "start", proj |-> [kind |-> "none"],
     demo_result |-> NoDemoResult, source_video_path |-> "", render_invoked |-> FALSE,
     error |-> ""]

Writers == DOMAIN jobs
WriterFinished(w) == jobs[w].pc \in {"done", "raised"}

\* one unified run on a project nothing else writes to
UnifiedInit ==
    /\ store \in {InitialProject, UsedProject}
    /\ jobs = <<NewWriter("unified")>>
    /\ completed = <<>>
    /\ RunnerIdle
    /\ ValidatorIdle
    /\ HistoryIdle
    /\ TtsIdle
    /\ FsIdle
    /\ CallIdle

\* up to MaxWriters writers of any kinds, started in any order
ConcurrentInit ==
    /\ store = InitialProject
    /\ jobs \in {ws \in SeqsUpTo({NewWriter(kind) : kind \in WriterKinds}, MaxWriters) : ws # <<>>}
    /\ completed = <<>>
    /\ RunnerIdle
    /\ ValidatorIdle
    /\ HistoryIdle
    /\ TtsIdle
    /\ FsIdle
    /\ CallIdle

\* load_project at unified.py:22
UnifiedLoad ==
    \E w \in Writers :
        /\ jobs[w].kind = "unified"
        /\ jobs[w].pc = "start"
        /\ jobs' = [jobs EXCEPT ![w].proj = store, ![w].pc = "capturing"]
        /\ UNCHANGED <<store, completed>>
        /\ UNCHANGED outside_store

\* unified.py:43-85: the capture returns; a failed one raises, a good one is
\* appended to the copy loaded at line 22, which is saved
UnifiedCapture ==
    \E w \in Writers : \E demo_result \in DemoResults :
        /\ jobs[w].kind = "unified"
        /\ jobs[w].pc = "capturing"
        /\ IF ~demo_result.ok
           THEN /\ jobs' = [jobs EXCEPT ![w].demo_result = demo_result,
                                        ![w].error = DemoError(demo_result),
                                        ![w].pc = "raised"]
                /\ UNCHANGED <<store, completed>>
           ELSE LET a == append_demo_run(jobs[w].proj,
                             DemoRunRecord(w, demo_result, "unified_pipeline", UnifiedRunId(w)),
                             DemoRunId(w), IntV(MAX_DEMO_RUN_HISTORY), w)
                IN  /\ store' = a.proj
                    /\ completed' = Append(completed, DemoRunId(w))
                    /\ jobs' = [jobs EXCEPT ![w].demo_result = demo_result,
                                            ![w].proj = a.proj,
                                            ![w].source_video_path = SelectSource(demo_result),
                                            ![w].pc = "render"]
        /\ UNCHANGED outside_store

\* run_tts_only_pipeline is entered and loads the project (tts_only.py:95),
\* from the unified pipeline (unified.py:87) or as a job of its own
RenderLoad ==
    \E w \in Writers :
        /\ \/ jobs[w].kind = "unified" /\ jobs[w].pc = "render"
           \/ jobs[w].kind = "render_job" /\ jobs[w].pc = "start"
        /\ jobs' = [jobs EXCEPT ![w].proj = store,
                                ![w].render_invoked = TRUE,
                                ![w].source_video_path =
                                    IF jobs[w].kind = "unified" THEN @ ELSE "input.mp4",
                                ![w].pc = "rendering"]
        /\ UNCHANGED <<store, completed>>
        /\ UNCHANGED outside_store

\* tts_only.py:98-254: the render fails, or appends its record to the copy
\* loaded at line 95 and saves it
RenderSave ==
    \E w \in Writers : \E render_ok \in BOOLEAN :
        /\ jobs[w].pc = "rendering"
        /\ IF ~render_ok
           THEN /\ jobs' = [jobs EXCEPT ![w].error = "render failed", ![w].pc = "raised"]
                /\ UNCHANGED <<store, completed>>
           ELSE LET a == append_render_history(jobs[w].proj,
                             RawRenderRecord(RenderId(w), w,
                                 IF jobs[w].kind = "unified" THEN "unified" ELSE "tts_only",
                                 NoCounts, RenderContext(jobs[w], w)),
                             RenderId(w), IntV(MAX_RENDER_HISTORY), w)
                IN  /\ store' = a.proj
                    /\ completed' = Append(completed, RenderId(w))
                    /\ jobs' = [jobs EXCEPT ![w].proj = a.proj,
                                            ![w].pc = IF jobs[w].kind = "unified"
                                                      THEN "correlate" ELSE "done"]
        /\ UNCHANGED outside_store

\* unified.py:102-119: reload, write the render onto the run, save
UnifiedCorrelate ==
    \E w \in Writers :
        /\ jobs[w].kind = "unified"
        /\ jobs[w].pc = "correlate"
        /\ LET proj_after_render ==
                   [store EXCEPT !.demo.runs =
                       CorrelateRun(@, DemoRunId(w), RenderId(w), "unified",
                                    jobs[w].source_video_path)]
           IN  /\ store' = proj_after_render
               /\ UNCHANGED completed
               /\ jobs' = [jobs EXCEPT ![w].proj = proj_after_render, ![w].pc = "done"]
        /\ UNCHANGED outside_store

\* load_project at jobs.py:31
DemoJobLoad ==
    \E w \in Writers :
        /\ jobs[w].kind = "demo_job"
        /\ jobs[w].pc = "start"
        /\ jobs' = [jobs EXCEPT ![w].proj = store, ![w].pc = "capturing"]
        /\ UNCHANGED <<store, completed>>
        /\ UNCHANGED outside_store

\* jobs.py:51-77: the capture returns; its record, good or failed, is appended
\* to the copy loaded at line 31, which is saved
DemoJobSave ==
    \E w \in Writers : \E demo_result \in DemoResults :
        /\ jobs[w].kind = "demo_job"
        /\ jobs[w].pc = "capturing"
        /\ LET a == append_demo_run(jobs[w].proj,
                        DemoRunRecord(w, demo_result, "api_demo_run", NoId),
                        DemoRunId(w), IntV(MAX_DEMO_RUN_HISTORY), w)
           IN  /\ store' = a.proj
               /\ completed' = Append(completed, DemoRunId(w))
               /\ jobs' = [jobs EXCEPT ![w].demo_result = demo_result,
                                       ![w].proj = a.proj, ![w].pc = "done"]
        /\ UNCHANGED outside_store

\* POST /projects/{id}/timeline/import (main.py:301-325)
EditTimeline ==
    \E w \in Writers :
        /\ jobs[w].kind = "edit_timeline"
        /\ jobs[w].pc = "start"
        /\ store' = [store EXCEPT !.timeline = w, !.settings.narration_mode = "tts_only"]
        /\ UNCHANGED completed
        /\ jobs' = [jobs EXCEPT ![w].proj = store', ![w].pc = "done"]
        /\ UNCHANGED outside_store

\* PATCH /projects/{id}/settings with a demo_context (main.py:246-291)
EditSettings ==
    \E w \in Writers :
        /\ jobs[w].kind = "edit_settings"
        /\ jobs[w].pc = "start"
        /\ store' = [store EXCEPT !.settings.demo_context = w]
        /\ UNCHANGED completed
        /\ jobs' = [jobs EXCEPT ![w].proj = store', ![w].pc = "done"]
        /\ UNCHANGED outside_store

\* POST /projects/{id}/tts/profile (main.py:393-400)
EditProfile ==
    \E w \in Writers :
        /\ jobs[w].kind = "edit_profile"
        /\ jobs[w].pc = "start"
        /\ store' = [store EXCEPT !.tts_profiles = w]
        /\ UNCHANGED completed
        /\ jobs' = [jobs EXCEPT ![w].proj = store', ![w].pc = "done"]
        /\ UNCHANGED outside_store

UnifiedNext ==
    \/ UnifiedLoad
    \/ UnifiedCapture
    \/ RenderLoad
    \/ RenderSave
    \/ UnifiedCorrelate

ConcurrentNext ==
    \/ UnifiedNext
    \/ DemoJobLoad
    \/ DemoJobSave
    \/ EditTimeline
    \/ EditSettings
    \/ EditProfile

SpecUnified == UnifiedInit /\ [][UnifiedNext]_vars
SpecConcurrent == ConcurrentInit /\ [][ConcurrentNext]_vars

(***************************************************************************)
(* Claims about the unified pipeline and the writers of a project.         *)
(***************************************************************************)
UnifiedWriters == {w \in Writers : jobs[w].kind = "unified"}

\* the recording is there, is not empty, and is flagged playable or not flagged
RawDemoUsable(demo_result) ==
    /\ demo_result.raw_demo_mp4 # "None"
    /\ demo_result.file = "data"
    /\ demo_result.raw_demo_playable # "false"

\* C16: the render is invoked with the raw demo mp4 as source_video_path
\* exactly when that file exists, is non-empty and is flagged playable or not
\* flagged at all; otherwise it is invoked with the project's input.mp4.
C16_SourceSelection ==
    \A w \in UnifiedWriters :
        jobs[w].render_invoked =>
            /\ jobs[w].source_video_path = jobs[w].demo_result.raw_demo_mp4
                   <=> RawDemoUsable(jobs[w].demo_result)
            /\ ~RawDemoUsable(jobs[w].demo_result)
                   => jobs[w].source_video_path = "input.mp4"

\* a render invoked with input.mp4 because the recording, though there and not
\* empty, is flagged unplayable
C16_Witness ==
    \E w \in UnifiedWriters :
        /\ jobs[w].render_invoked
        /\ jobs[w].demo_result.raw_demo_mp4 # "None"
        /\ jobs[w].demo_result.file = "data"
        /\ jobs[w].demo_result.raw_demo_playable = "false"
        /\ jobs[w].source_video_path = "input.mp4"

\* the records of writer w's run in a document
RunsOf(doc, w) == {i \in 1..Len(doc.demo.runs) : doc.demo.runs[i].run_id = DemoRunId(w)}
RendersOf(doc, w) ==
    {i \in 1..Len(doc.renders.history) : doc.renders.history[i].render_id = RenderId(w)}

\* C17: after a unified run returned, with no other writer, the stored project
\* holds the run's demo record, correlated with the run's unified_run_id and
\* render_id, and the run's render record, correlated with its demo_run_id and
\* unified_run_id.
C17_CrossCorrelated ==
    \A w \in UnifiedWriters :
        jobs[w].pc = "done" =>
            /\ RunsOf(store, w) # {}
            /\ \A i \in RunsOf(store, w) :
                 /\ store.demo.runs[i].correlation.unified_run_id = UnifiedRunId(w)
                 /\ store.demo.runs[i].correlation.render_id = RenderId(w)
            /\ RendersOf(store, w) # {}
            /\ \A i \in RendersOf(store, w) :
                 /\ store.renders.history[i].correlation.demo_run_id = DemoRunId(w)
                 /\ store.renders.history[i].correlation.unified_run_id = UnifiedRunId(w)

\* a unified run that returned on a project with an earlier run and render
C17_Witness ==
    \E w \in UnifiedWriters :
        /\ jobs[w].pc = "done"
        /\ Len(store.demo.runs) = 2
        /\ Len(store.renders.history) = 2
        /\ store.demo.runs[2].correlation.render_id = RenderId(w)
        /\ store.demo.last_run_id = DemoRunId(w)

\* C18: when the capture result has ok = false, the unified pipeline raises
\* with the capture's error text ("demo capture failed" when it has none) and
\* never invokes the render.
C18_FailedDemoRaises ==
    \A w \in UnifiedWriters :
        jobs[w].pc \notin {"start", "capturing"} /\ ~jobs[w].demo_result.ok =>
            /\ jobs[w].pc = "raised"
            /\ jobs[w].error = IF jobs[w].demo_result.error # ""
                               THEN jobs[w].demo_result.error
                               ELSE "demo capture failed"
            /\ ~jobs[w].render_invoked

\* a unified run that raised the error text of its failed capture
C18_Witness ==
    \E w \in UnifiedWriters :
        /\ jobs[w].pc = "raised"
        /\ ~jobs[w].demo_result.ok
        /\ jobs[w].demo_result.error = "boom"
        /\ jobs[w].error = "boom"
        /\ ~jobs[w].render_invoked

\* C19: once the unified pipeline has its capture result, failed ones
\* included, the stored project's demo.runs holds that run's record, with
\* trigger unified_pipeline and the run's unified_run_id.
C19_AsStated ==
    \A w \in UnifiedWriters :
        jobs[w].pc \notin {"start", "capturing"} =>
            \E i \in RunsOf(store, w) :
                /\ store.demo.runs[i].correlation.trigger = "unified_pipeline"
                /\ store.demo.runs[i].correlation.unified_run_id = UnifiedRunId(w)

\* a unified run that raised because its capture failed
C19_Witness ==
    \E w \in UnifiedWriters :
        /\ jobs[w].pc = "raised"
        /\ ~jobs[w].demo_result.ok
        /\ jobs[w].error = "demo capture failed"

\* the writers that have saved an edit of the timeline, of the demo context,
\* of the profiles
EditorsDone(kind) == {w \in Writers : jobs[w].kind = kind /\ jobs[w].pc = "done"}
\* what a part of the document may be after the writers ran one after the
\* other in some order
SerialValues(kind, initial) ==
    IF EditorsDone(kind) = {} THEN {initial} ELSE EditorsDone(kind)

\* C20: when every writer has finished, the timeline, the settings and the
\* profiles are what some serial run of the writers leaves: an edit saved by
\* the API is still there, whatever job saved around it.
C20_AsStated ==
    (\A w \in Writers : WriterFinished(w)) =>
        /\ store.timeline \in SerialValues("edit_timeline", InitialProject.timeline)
        /\ store.settings.demo_context
               \in SerialValues("edit_settings", InitialProject.settings.demo_context)
        /\ store.tts_profiles \in SerialValues("edit_profile", InitialProject.tts_profiles)

\* a job and an edit have both finished
C20_Witness ==
    /\ \A w \in Writers : WriterFinished(w)
    /\ \E w \in Writers : jobs[w].kind \in {"unified", "demo_job", "render_job"}
    /\ \E w \in Writers : jobs[w].kind = "edit_timeline"

\* where in the order of completion the record with that id is; 0 for a
\* record that was there before the writers started
CompletionRank(id) ==
    IF \E k \in DOMAIN completed : completed[k] = id
    THEN CHOOSE k \in DOMAIN completed : completed[k] = id
    ELSE 0

\* C22: of two records in the stored renders.history, and of two in the
\* stored demo.runs, the one before the other is of the run that completed
\* first, however the writers interleave.
C22_CompletionOrder ==
    /\ \A i, j \in DOMAIN store.renders.history :
         i < j => CompletionRank(store.renders.history[i].render_id)
                      < CompletionRank(store.renders.history[j].render_id)
    /\ \A i, j \in DOMAIN store.demo.runs :
         i < j => CompletionRank(store.demo.runs[i].run_id)
                      < CompletionRank(store.demo.runs[j].run_id)

\* two writers ran side by side, both rendered, and both their render records
\* are stored
C22_Witness ==
    \E v, w \in Writers :
        /\ v # w
        /\ RendersOf(store, v) # {}
        /\ RendersOf(store, w) # {}

(***************************************************************************)
(* save_project and load_project on the files of one project               *)
(* (pipeline/utils.py atomic_write_json, storage.py:610-618). Every save   *)
(* writes project.json.tmp and renames it onto project.json.               *)
(***************************************************************************)
\* save_project calls in flight at once
MaxSavers == 2
\* write() calls one write_text of a document takes
ChunksPerDoc == 2

\* json.dumps(obj) of document d as the chunks written one after the other
Chunks(d) == [k \in 1..ChunksPerDoc |-> [doc |-> d, part |-> k]]
\* a part of a file nothing was written to
Hole == [doc |-> 0, part |-> 0]

\* a write() of chunk at the offset of a file descriptor
WriteAt(content, offset, chunk) ==
    [k \in 1..Max(Len(content), offset + 1) |->
        IF k = offset + 1 THEN chunk
        ELSE IF k <= Len(content) THEN content[k]
        ELSE Hole]

NewSaver(d) == [pc |-> "start", doc |-> d, fd |-> 0, offset |-> 0]

\* project.json holds the document init_project wrote; no temp file is left
FsInit ==
    /\ fs_files = <<Chunks(0)>>
    /\ fs_names = [json |-> 1, tmp |-> 0]
    /\ savers \in {[w \in 1..n |-> NewSaver(w)] : n \in 1..MaxSavers}
    /\ loaded = {}
    /\ RunnerIdle
    /\ ValidatorIdle
    /\ HistoryIdle
    /\ TtsIdle
    /\ StoreIdle
    /\ CallIdle

\* tmp.write_text: open(tmp, "w") creates the file or truncates the one there
OpenTmp ==
    \E w \in DOMAIN savers :
        /\ savers[w].pc = "start"
        /\ IF fs_names.tmp = 0
           THEN /\ fs_files' = Append(fs_files, <<>>)
                /\ fs_names' = [fs_names EXCEPT !.tmp = Len(fs_files) + 1]
           ELSE /\ fs_files' = [fs_files EXCEPT ![fs_names.tmp] = <<>>]
                /\ fs_names' = fs_names
        /\ savers' = [savers EXCEPT ![w].pc = "writing", ![w].fd = fs_names'.tmp,
                                    ![w].offset = 0]
        /\ UNCHANGED loaded
        /\ UNCHANGED outside_fs

\* tmp.write_text: one write() to the open file, at the descriptor's offset
WriteTmp ==
    \E w \in DOMAIN savers :
        /\ savers[w].pc = "writing"
        /\ fs_files' = [fs_files EXCEPT ![savers[w].fd] =
                           WriteAt(@, savers[w].offset,
                                   Chunks(savers[w].doc)[savers[w].offset + 1])]
        /\ savers' = [savers EXCEPT ![w].offset = @ + 1,
                                    ![w].pc = IF savers[w].offset + 1 = ChunksPerDoc
                                              THEN "replace" ELSE "writing"]
        /\ UNCHANGED <<fs_names, loaded>>
        /\ UNCHANGED outside_fs

\* os.replace(tmp, path): FileNotFoundError when no file is named tmp
ReplaceTmp ==
    \E w \in DOMAIN savers :
        /\ savers[w].pc = "replace"
        /\ IF fs_names.tmp = 0
           THEN /\ savers' = [savers EXCEPT ![w].pc = "failed"]
                /\ fs_names' = fs_names
           ELSE /\ savers' = [savers EXCEPT ![w].pc = "done"]
                /\ fs_names' = [json |-> fs_names.tmp, tmp |-> 0]
        /\ UNCHANGED <<fs_files, loaded>>
        /\ UNCHANGED outside_fs

\* load_project: path.read_text()
ReadProjectJson ==
    /\ fs_files[fs_names.json] \notin loaded
    /\ loaded' = loaded \cup {fs_files[fs_names.json]}
    /\ UNCHANGED <<fs_names, fs_files, savers>>
    /\ UNCHANGED outside_fs

FsNext ==
    \/ OpenTmp
    \/ WriteTmp
    \/ ReplaceTmp
    \/ ReadProjectJson

SpecFs == FsInit /\ [][FsNext]_vars

\* C21: every load reads the complete document of one save (or the one
\* init_project wrote), and no save fails.
C21_AsStated ==
    /\ \A content \in loaded : \E d \in 0..MaxSavers : content = Chunks(d)
    /\ \A w \in DOMAIN savers : savers[w].pc # "failed"

\* two saves are writing at once and a load has read project.json
C21_Witness ==
    /\ \E v, w \in DOMAIN savers :
         v # w /\ savers[v].pc = "writing" /\ savers[w].pc = "writing"
    /\ loaded # {}

(***************************************************************************)
(* GET /jobs/{job_id} (main.py job_status): one call of the handler on a   *)
(* queue job in any state.                                                 *)
(***************************************************************************)
ERROR_TAIL == 2000

\* the job as Job.fetch returns it, or no job when the fetch raises
QueueJobs ==
    [fetched : BOOLEAN, is_started : BOOLEAN, is_finished : BOOLEAN, is_failed : BOOLEAN,
     exc_info : {<<>>, <<"Traceback", "ValueError">>},
     run_type : {"None", "render", "demo_capture", "other"},
     execution_mode : {"None", "playwright_optional", "playwright_required", "other"}]

\* the first flag set wins
JobStatusFirstFlagWins(job) ==
    IF job.is_started THEN "started"
    ELSE IF job.is_finished THEN "finished"
    ELSE IF job.is_failed THEN "failed"
    ELSE "queued"

\* main.py:552-558
JobStatusOf(job) ==
    LET queued == "queued"
        started == IF job.is_started THEN "started" ELSE queued
        finished == IF job.is_finished THEN "finished" ELSE started
    IN  IF job.is_failed THEN "failed" ELSE finished

\* str(job.exc_info)[-2000:]
ErrorTail(exc_info) ==
    SubSeq(exc_info, Max(1, Len(exc_info) - ERROR_TAIL + 1), Len(exc_info))

\* the value if it is one of the allowed ones
OneOf(value, allowed) == IF value \in allowed THEN value ELSE "None"

job_status(job) ==
    IF ~job.fetched
    THEN [kind |-> "HTTPException", status_code |-> 404, detail |-> "Job not found"]
    ELSE [kind |-> "JobStatusResponse",
          status |-> JobStatusOf(job),
          error |-> IF ~job.is_failed THEN <<"None">>
                    ELSE IF job.exc_info # <<>> THEN ErrorTail(job.exc_info)
                    ELSE <<"failed">>,
          run_type |-> OneOf(job.run_type, {"render", "demo_capture"}),
          execution_mode |-> OneOf(job.execution_mode,
                                   {"playwright_optional", "playwright_required"})]

JobStatusInit ==
    /\ call \in {[fn |-> "job_status", job |-> job] : job \in QueueJobs}
    /\ ret = [kind |-> "none"]
    /\ RunnerIdle
    /\ ValidatorIdle
    /\ HistoryIdle
    /\ TtsIdle
    /\ StoreIdle
    /\ FsIdle

JobStatusCall ==
    /\ call.fn = "job_status"
    /\ ret.kind = "none"
    /\ ret' = job_status(call.job)
    /\ UNCHANGED call
    /\ UNCHANGED outside_call

JobStatusNext == JobStatusCall

SpecJobStatus == JobStatusInit /\ [][JobStatusNext]_vars

\* C23: for a job that can be fetched the handler answers with one status,
\* failed if the job is failed, else finished if it is finished, else started
\* if it is started, else queued; for one that cannot it raises a 404.
C23_JobStatus ==
    ret.kind # "none" =>
        IF call.job.fetched
        THEN /\ ret.kind = "JobStatusResponse"
             /\ ret.status \in {"queued", "started", "finished", "failed"}
             /\ ret.status = (IF call.job.is_failed THEN "failed"
                              ELSE IF call.job.is_finished THEN "finished"
                              ELSE IF call.job.is_started THEN "started"
                              ELSE "queued")
        ELSE /\ ret.kind = "HTTPException"
             /\ ret.status_code = 404

\* a job with all three flags set was reported as failed
C23_Witness ==
    /\ ret.kind = "JobStatusResponse"
    /\ call.job.is_started /\ call.job.is_finished /\ call.job.is_failed
    /\ ret.status = "failed"

(***************************************************************************)
(* normalize_narration_events (timeline/normalizer.py): one call on a list *)
(* of raw events. An id is the sequence of its parts: a name, the n<k> of  *)
(* an event without id, and the _<k> that are appended to repeated ids.    *)
(***************************************************************************)
\* events in one list
MaxEvents == 3

default_duration_ms == 3000
min_duration_ms == 500

IdName(name) == [t |-> "name", v |-> name, n |-> 0]
\* f"n{k}"
IdN(k) == [t |-> "n", v |-> "", n |-> k]
\* f"_{k}"
IdSuffix(k) == [t |-> "_", v |-> "", n |-> k]

\* event.get("id"): none, "a", "a_1", "n2"
RawEventIds == {<<>>, <<IdName("a")>>, <<IdName("a"), IdSuffix(1)>>, <<IdN(2)>>}

\* end_ms is -1 where the event has none (_as_int(None, -1))
RawEvents ==
    [is_dict : {TRUE}, id : RawEventIds, start_ms : {0, 1000}, end_ms : {-1, 1000},
     text : {"hi"}]
    \cup {[is_dict |-> TRUE, id |-> <<>>, start_ms |-> 0, end_ms |-> -1, text |-> ""],
          [is_dict |-> FALSE, id |-> <<>>, start_ms |-> 0, end_ms |-> -1, text |-> ""],
          [is_dict |-> TRUE, id |-> <<>>, start_ms |-> -1000, end_ms |-> 0, text |-> "hi"]}

\* video_duration_ms: not given (0), or the length of the video
VideoDurations == {0, 1000, 1500}

\* lines 26-49: the events with start_ms clamped and their index
Prepared(raw_events) ==
    [i \in DOMAIN raw_events |->
        [raw |-> raw_events[i], start_ms |-> Max(0, raw_events[i].start_ms),
         end_ms |-> raw_events[i].end_ms, index |-> i]]

PreparedLess(a, b) ==
    \/ a.start_ms < b.start_ms
    \/ a.start_ms = b.start_ms /\ a.index < b.index

RECURSIVE SortPrepared(_)
\* prepared.sort(key=(start_ms, index))
SortPrepared(items) ==
    IF items = <<>> THEN <<>>
    ELSE LET k == CHOOSE k \in DOMAIN items :
                     \A l \in DOMAIN items : l # k => PreparedLess(items[k], items[l])
         IN  <<items[k]>> \o SortPrepared([l \in 1..(Len(items) - 1) |->
                                               IF l < k THEN items[l] ELSE items[l + 1]])

\* the end as the event gives it, cut at the end of the video and no more
EndMsAsGiven(prepared, k, bounded_duration) ==
    IF bounded_duration > 0 /\ prepared[k].end_ms > bounded_duration
    THEN bounded_duration
    ELSE prepared[k].end_ms

\* the end repaired, but never cut at the end of the video
EndMsUncut(prepared, k, bounded_duration) ==
    LET start_ms == prepared[k].start_ms
        later == {l \in (k + 1)..Len(prepared) : prepared[l].start_ms > start_ms}
    IN  IF prepared[k].end_ms > start_ms THEN prepared[k].end_ms
        ELSE IF later # {}
             THEN prepared[CHOOSE l \in later : \A m \in later : l <= m].start_ms
             ELSE start_ms + default_duration_ms

\* lines 64-79, for the event at place k of the sorted list
EndMs(prepared, k, bounded_duration) ==
    LET start_ms == prepared[k].start_ms
        later == {l \in (k + 1)..Len(prepared) : prepared[l].start_ms > start_ms}
        repaired == IF prepared[k].end_ms > start_ms THEN prepared[k].end_ms
                    ELSE IF later # {}
                         THEN prepared[CHOOSE l \in later : \A m \in later : l <= m].start_ms
                         ELSE start_ms + default_duration_ms
        cut == IF bounded_duration > 0 /\ repaired > bounded_duration
               THEN bounded_duration ELSE repaired
    IN  IF cut <= start_ms THEN start_ms + min_duration_ms ELSE cut

RECURSIVE NormalizeFrom(_, _, _, _, _)
\* lines 57-96: the events from place k on; seen_ids as the function from the
\* ids seen to their counts
NormalizeFrom(prepared, k, bounded_duration, seen_ids, normalized) ==
    IF k > Len(prepared) THEN normalized
    ELSE IF bounded_duration > 0 /\ prepared[k].start_ms >= bounded_duration
    THEN NormalizeFrom(prepared, k + 1, bounded_duration, seen_ids, normalized)
    ELSE LET source == prepared[k].raw
             event_id == IF source.id # <<>> THEN source.id ELSE <<IdN(k)>>
             seen == event_id \in DOMAIN seen_ids
             count == IF seen THEN seen_ids[event_id] + 1 ELSE 0
             output_event ==
                 [id |-> IF seen THEN Append(event_id, IdSuffix(count)) ELSE event_id,
                  start_ms |-> prepared[k].start_ms,
                  end_ms |-> EndMs(prepared, k, bounded_duration),
                  text |-> source.text,
                  \* str(source.get("voice_profile_id") or "default")
                  voice_profile_id |-> IF "voice_profile_id" \in DOMAIN source
                                       THEN source.voice_profile_id ELSE "default"]
         IN  NormalizeFrom(prepared, k + 1, bounded_duration,
                           [id \in DOMAIN seen_ids \cup {event_id} |->
                               IF id = event_id THEN count ELSE seen_ids[id]],
                           Append(normalized, output_event))

normalize_narration_events(raw_events, video_duration_ms) ==
    IF raw_events = <<>> THEN [kind |-> "events", events |-> <<>>, code |-> ""]
    ELSE IF \E i \in DOMAIN raw_events : ~raw_events[i].is_dict
                /\ \A j \in 1..(i - 1) : raw_events[j].is_dict /\ raw_events[j].text # ""
    THEN [kind |-> "TimelineImportError", events |-> <<>>, code |-> "invalid_event"]
    ELSE IF \E i \in DOMAIN raw_events : raw_events[i].text = ""
    THEN [kind |-> "TimelineImportError", events |-> <<>>, code |-> "empty_text"]
    ELSE LET normalized == NormalizeFrom(SortPrepared(Prepared(raw_events)), 1,
                                         video_duration_ms, << >>, <<>>)
         IN  IF normalized = <<>>
             THEN [kind |-> "TimelineImportError", events |-> <<>>, code |-> "empty_output"]
             ELSE [kind |-> "events", events |-> normalized, code |-> ""]

NormalizerInit ==
    /\ call \in {[fn |-> "normalize_narration_events", raw_events |-> raw_events,
                  video_duration_ms |-> video_duration_ms] :
                     raw_events \in SeqsUpTo(RawEvents, MaxEvents),
                     video_duration_ms \in VideoDurations}
    /\ ret = [kind |-> "none"]
    /\ RunnerIdle
    /\ ValidatorIdle
    /\ HistoryIdle
    /\ TtsIdle
    /\ StoreIdle
    /\ FsIdle

NormalizerCall ==
    /\ call.fn = "normalize_narration_events"
    /\ ret.kind = "none"
    /\ ret' = normalize_narration_events(call.raw_events, call.video_duration_ms)
    /\ UNCHANGED call
    /\ UNCHANGED outside_call

NormalizerNext == NormalizerCall

SpecNormalizer == NormalizerInit /\ [][NormalizerNext]_vars

\* C24: every event normalize_narration_events returns ends after it starts.
C24_EndAfterStart ==
    ret.kind = "events" =>
        \A i \in DOMAIN ret.events : ret.events[i].end_ms > ret.events[i].start_ms

\* events with the same start, one without end_ms and one whose end_ms is not
\* after its start, were normalized for a video of known length
C24_Witness ==
    /\ ret.kind = "events"
    /\ call.video_duration_ms > 0
    /\ \E i, j \in DOMAIN call.raw_events :
         /\ i # j
         /\ call.raw_events[i].start_ms = call.raw_events[j].start_ms
         /\ call.raw_events[i].end_ms = -1
         /\ call.raw_events[j].end_ms = call.raw_events[j].start_ms
    /\ Len(ret.events) = Len(call.raw_events)

\* C25: the ids of the events normalize_narration_events returns are pairwise
\* distinct.
C25_AsStated ==
    ret.kind = "events" =>
        \A i, j \in DOMAIN ret.events : i # j => ret.events[i].id # ret.events[j].id

\* a list in which an id is repeated was normalized
C25_Witness ==
    /\ ret.kind = "events"
    /\ \E i, j \in DOMAIN call.raw_events :
         i # j /\ call.raw_events[i].id # <<>> /\ call.raw_events[i].id = call.raw_events[j].id
    /\ Len(ret.events) = Len(call.raw_events)

(***************************************************************************)
(* _timeline_to_segments (pipeline/tts_only.py:22-74): one call on a       *)
(* timeline and the duration of the video.                                 *)
(***************************************************************************)
\* narration events in one timeline
MaxTimelineEvents == 2

\* str order of the ids used: "a" < "b" < "n1" < "n2" < ...
EventIdRank(id) ==
    IF id.t = "name" THEN (IF id.v = "a" THEN 1 ELSE 2) ELSE 2 + id.n

NoEventId == [t |-> "none", v |-> "", n |-> 0]

\* start_ms and end_ms are 0 where the event has none
TimelineEvents ==
    [is_dict : {TRUE}, id : {NoEventId, IdName("a"), IdName("b")}, start_ms : {0, 800},
     end_ms : {0, 400, 1000}, text : {"hi"}]
    \cup {[is_dict |-> TRUE, id |-> NoEventId, start_ms |-> 0, end_ms |-> 0, text |-> ""],
          [is_dict |-> FALSE, id |-> NoEventId, start_ms |-> 0, end_ms |-> 0, text |-> ""],
          [is_dict |-> TRUE, id |-> NoEventId, start_ms |-> -800, end_ms |-> 0, text |-> "hi"]}

SegmentVideoDurations == {0, 1000, 5000}

RECURSIVE NormalizedEvents(_, _)
\* lines 27-43: the events from place place on that are objects with a text
NormalizedEvents(events, place) ==
    IF place > Len(events) THEN <<>>
    ELSE LET event == events[place]
             start_ms == event.start_ms
             end_ms == IF event.end_ms # 0 THEN event.end_ms ELSE start_ms
         IN  IF ~event.is_dict \/ event.text = ""
             THEN NormalizedEvents(events, place + 1)
             ELSE <<[id |-> IF event.id # NoEventId THEN event.id ELSE IdN(place),
                     start_ms |-> Max(0, start_ms),
                     end_ms |-> Max(0, end_ms),
                     text |-> event.text]>> \o NormalizedEvents(events, place + 1)

\* the key (int(start_ms), str(id)); equal keys keep their places
EventBefore(events, k, l) ==
    \/ events[k].start_ms < events[l].start_ms
    \/ /\ events[k].start_ms = events[l].start_ms
       /\ \/ EventIdRank(events[k].id) < EventIdRank(events[l].id)
          \/ EventIdRank(events[k].id) = EventIdRank(events[l].id) /\ k < l

RECURSIVE SortNormalizedEvents(_)
\* normalized_events.sort(...)
SortNormalizedEvents(events) ==
    IF events = <<>> THEN <<>>
    ELSE LET k == CHOOSE k \in DOMAIN events :
                     \A l \in DOMAIN events : l # k => EventBefore(events, k, l)
         IN  <<events[k]>> \o SortNormalizedEvents([l \in 1..(Len(events) - 1) |->
                                             IF l < k THEN events[l] ELSE events[l + 1]])

\* lines 54-60, for the event at place k of the sorted list
SegmentEndMs(normalized_events, k, video_duration_ms) ==
    LET start_ms == normalized_events[k].start_ms
        end_ms == IF normalized_events[k].end_ms > start_ms THEN normalized_events[k].end_ms
                  ELSE IF k < Len(normalized_events) THEN normalized_events[k + 1].start_ms
                  ELSE Min(video_duration_ms, start_ms + 3000)
    IN  Min(video_duration_ms, Max(end_ms, start_ms + 500))

RECURSIVE SegmentsFrom(_, _, _)
\* lines 47-73
SegmentsFrom(normalized_events, k, video_duration_ms) ==
    IF k > Len(normalized_events) THEN <<>>
    ELSE IF normalized_events[k].start_ms >= video_duration_ms
    THEN SegmentsFrom(normalized_events, k + 1, video_duration_ms)
    ELSE <<[id |-> k - 1,
            event_id |-> normalized_events[k].id,
            start_ms |-> normalized_events[k].start_ms,
            end_ms |-> SegmentEndMs(normalized_events, k, video_duration_ms),
            text |-> normalized_events[k].text]>>
         \o SegmentsFrom(normalized_events, k + 1, video_duration_ms)

_timeline_to_segments(timeline, video_duration_ms) ==
    IF ~timeline.is_list THEN <<>>
    ELSE SegmentsFrom(SortNormalizedEvents(NormalizedEvents(timeline.narration_events, 1)), 1,
                      video_duration_ms)

SegmentsInit ==
    /\ call \in {[fn |-> "_timeline_to_segments",
                  timeline |-> [is_list |-> is_list, narration_events |-> events],
                  video_duration_ms |-> video_duration_ms] :
                     is_list \in BOOLEAN,
                     events \in SeqsUpTo(TimelineEvents, MaxTimelineEvents),
                     video_duration_ms \in SegmentVideoDurations}
    /\ ret = [kind |-> "none"]
    /\ RunnerIdle
    /\ ValidatorIdle
    /\ HistoryIdle
    /\ TtsIdle
    /\ StoreIdle
    /\ FsIdle

SegmentsCall ==
    /\ call.fn = "_timeline_to_segments"
    /\ ret.kind = "none"
    /\ ret' = [kind |-> "segments",
               segments |-> _timeline_to_segments(call.timeline, call.video_duration_ms)]
    /\ UNCHANGED call
    /\ UNCHANGED outside_call

SegmentsNext == SegmentsCall

SpecSegments == SegmentsInit /\ [][SegmentsNext]_vars

\* C26: every segment made from a timeline lasts at least 500 ms.
C26_AsStated ==
    ret.kind = "segments" =>
        \A i \in DOMAIN ret.segments :
            ret.segments[i].end_ms >= ret.segments[i].start_ms + 500

\* a segment was made of an event that starts in the last 500 ms of the video
C26_Witness ==
    /\ ret.kind = "segments"
    /\ \E i \in DOMAIN ret.segments :
         /\ ret.segments[i].start_ms < call.video_duration_ms
         /\ ret.segments[i].start_ms + 500 > call.video_duration_ms

(***************************************************************************)
(* ensure_project_defaults (storage.py:308-507): the migration load_project*)
(* applies to every document it reads. A key that holds a dict is kept as  *)
(* a record with present = TRUE; a key that is missing or holds something  *)
(* else has present = FALSE. A value that is only replaced when it is not  *)
(* there is kept as "None", "default" (what the code puts) or "custom".    *)
(***************************************************************************)
SCHEMA_VERSION == "2.0.0"
TIMELINE_VERSION == "1.0"

\* what one step of the migration leaves: the value and whether it set changed
Kept(value) == [value |-> value, changed |-> FALSE]
Put(value) == [value |-> value, changed |-> TRUE]

\* if not isinstance(x, dict): x = <default>
DefaultIfNone(tag) == IF tag = "None" THEN Put("default") ELSE Kept(tag)

\* lines 311-314
SchemaVersionAfter(schema_version) ==
    IF schema_version \in {"", "1.0.0", "1.1.0", "1.2.0"}
    THEN Put(SCHEMA_VERSION) ELSE Kept(schema_version)

\* settings == {}: no key is there
EmptySettings ==
    [present |-> TRUE, segmentation |-> "None", models |-> "None", narration |-> "None",
     tts |-> "None", demo_context |-> "None",
     holistic |-> [present |-> FALSE, keyframe_density |-> "None",
                   match_confidence_threshold |-> "None"],
     narration_mode |-> "None",
     demo_capture_execution_mode |-> [mode |-> "", clean |-> TRUE],
     holistic_fallback_to_segment |-> "None"]

_default_holistic_settings ==
    [present |-> TRUE, keyframe_density |-> "1.0", match_confidence_threshold |-> "0.5"]

\* lines 343-353
HolisticSettingsAfter(holistic) ==
    IF ~holistic.present THEN Put(_default_holistic_settings)
    ELSE [value |-> [holistic EXCEPT
                        !.keyframe_density = IF @ = "None" THEN "1.0" ELSE @,
                        !.match_confidence_threshold = IF @ = "None" THEN "0.5" ELSE @],
          changed |-> holistic.keyframe_density = "None"
                          \/ holistic.match_confidence_threshold = "None"]

\* lines 360-366: the setting is kept as the text its strip().lower() gives
\* (mode) and whether it is that text already (clean)
ExecutionModeAfter(setting) ==
    IF setting.mode \notin {"playwright_optional", "playwright_required"}
    THEN Put([mode |-> "playwright_optional", clean |-> TRUE])
    ELSE IF ~setting.clean THEN Put([setting EXCEPT !.clean = TRUE])
    ELSE Kept(setting)

\* lines 316-370
SettingsAfter(settings_in) ==
    LET st == IF settings_in.present THEN settings_in ELSE EmptySettings
        segmentation == DefaultIfNone(st.segmentation)
        models == DefaultIfNone(st.models)
        narration == DefaultIfNone(st.narration)
        tts == DefaultIfNone(st.tts)
        demo_context == IF st.demo_context = "None" THEN Put("") ELSE Kept(st.demo_context)
        holistic == HolisticSettingsAfter(st.holistic)
        narration_mode == IF st.narration_mode = "None" THEN Put("tts_only")
                          ELSE Kept(st.narration_mode)
        mode == ExecutionModeAfter(st.demo_capture_execution_mode)
        fallback == IF st.holistic_fallback_to_segment = "None" THEN Put("True")
                    ELSE Kept(st.holistic_fallback_to_segment)
    IN  [value |-> [present |-> TRUE, segmentation |-> segmentation.value,
                    models |-> models.value, narration |-> narration.value,
                    tts |-> tts.value, demo_context |-> demo_context.value,
                    holistic |-> holistic.value, narration_mode |-> narration_mode.value,
                    demo_capture_execution_mode |-> mode.value,
                    holistic_fallback_to_segment |-> fallback.value],
         changed |-> \/ ~settings_in.present
                     \/ segmentation.changed \/ models.changed \/ narration.changed
                     \/ tts.changed \/ demo_context.changed \/ holistic.changed
                     \/ narration_mode.changed \/ mode.changed \/ fallback.changed]

\* lines 372-374: segments is a list afterwards
SegmentsAfter(segments) ==
    IF ~segments.is_list THEN Put([is_list |-> TRUE, items |-> <<>>]) ELSE Kept(segments)

_default_exports == [present |-> TRUE, artifacts |-> "default",
                     ffmpeg |-> [present |-> TRUE, commands |-> "default"]]

\* lines 376-390
ExportsAfter(exports) ==
    IF ~exports.present THEN Put(_default_exports)
    ELSE LET artifacts == DefaultIfNone(exports.artifacts)
             ffmpeg == IF ~exports.ffmpeg.present
                       THEN Put([present |-> TRUE, commands |-> "default"])
                       ELSE Kept(exports.ffmpeg)
             commands == DefaultIfNone(ffmpeg.value.commands)
         IN  [value |-> [present |-> TRUE, artifacts |-> artifacts.value,
                         ffmpeg |-> [present |-> TRUE, commands |-> commands.value]],
              changed |-> artifacts.changed \/ ffmpeg.changed \/ commands.changed]

\* lines 392-405
PlanningAfter(planning) ==
    LET narration_global ==
            IF planning.present THEN planning.narration_global
            ELSE [present |-> FALSE, status |-> "None"]
    IN  [value |-> [present |-> TRUE,
                    narration_global |->
                        IF ~narration_global.present
                        THEN [present |-> TRUE, status |-> "not_started"]
                        ELSE IF narration_global.status = "None"
                        THEN [narration_global EXCEPT !.status = "not_started"]
                        ELSE narration_global],
         changed |-> \/ ~planning.present
                     \/ ~narration_global.present
                     \/ narration_global.status = "None"]

\* a legacy segment: id and end_ms are -1 where the segment has none
LegacySegment(is_dict, id, start_ms, end_ms, text) ==
    [is_dict |-> is_dict, id |-> id, start_ms |-> start_ms, end_ms |-> end_ms,
     text |-> text]

RECURSIVE LegacyEventsFrom(_, _, _)
\* storage.py:250-287: the events of the segments from place k on; seen_ids as
\* the function from the base ids seen to their counts
LegacyEventsFrom(segments, k, seen_ids) ==
    IF k > Len(segments) THEN <<>>
    ELSE IF ~segments[k].is_dict THEN LegacyEventsFrom(segments, k + 1, seen_ids)
    ELSE LET segment == segments[k]
             raw_id == IF segment.id # -1 THEN segment.id ELSE k - 1
             base_id == <<IdN(raw_id)>>
             seen == base_id \in DOMAIN seen_ids
             count == IF seen THEN seen_ids[base_id] + 1 ELSE 0
             end_ms == IF segment.end_ms = -1 THEN segment.start_ms ELSE segment.end_ms
         IN  <<[id |-> IF seen THEN Append(base_id, IdSuffix(count)) ELSE base_id,
                start_ms |-> segment.start_ms,
                end_ms |-> Max(end_ms, segment.start_ms),
                text |-> segment.text,
                source_segment_id |-> raw_id]>>
             \o LegacyEventsFrom(segments, k + 1,
                    [id \in DOMAIN seen_ids \cup {base_id} |->
                        IF id = base_id THEN count ELSE seen_ids[id]])

\* the key (start_ms, end_ms, id) of the sort at line 288; an id is n<k> or
\* n<k>_<c>
LegacyEventBefore(a, b) ==
    LET suffix(id) == IF Len(id) > 1 THEN id[2].n ELSE 0
    IN  \/ a.start_ms < b.start_ms
        \/ a.start_ms = b.start_ms /\ a.end_ms < b.end_ms
        \/ a.start_ms = b.start_ms /\ a.end_ms = b.end_ms /\ a.id[1].n < b.id[1].n
        \/ a.start_ms = b.start_ms /\ a.end_ms = b.end_ms /\ a.id[1].n = b.id[1].n
               /\ suffix(a.id) < suffix(b.id)

RECURSIVE SortLegacyEvents(_)
SortLegacyEvents(events) ==
    IF events = <<>> THEN <<>>
    ELSE LET k == CHOOSE k \in DOMAIN events :
                     \A l \in DOMAIN events : l # k => LegacyEventBefore(events[k], events[l])
         IN  <<events[k]>> \o SortLegacyEvents([l \in 1..(Len(events) - 1) |->
                                                   IF l < k THEN events[l] ELSE events[l + 1]])

_segments_to_narration_events(segments) ==
    IF ~segments.is_list THEN <<>>
    ELSE SortLegacyEvents(LegacyEventsFrom(segments.items, 1, << >>))

\* the legacy events are put whether or not the timeline has events
ProjectedAlways(narration_events, legacy_narration_events) ==
    IF legacy_narration_events # <<>> THEN Put(legacy_narration_events)
    ELSE Kept(narration_events)

\* lines 426-428
Projected(narration_events, legacy_narration_events) ==
    IF narration_events = <<>> /\ legacy_narration_events # <<>>
    THEN Put(legacy_narration_events)
    ELSE Kept(narration_events)

_default_timeline(narration_events) ==
    [present |-> TRUE, timeline_version |-> TIMELINE_VERSION,
     narration_events |-> [is_list |-> TRUE, items |-> narration_events],
     action_events |-> "default"]

\* lines 411-428
TimelineAfter(timeline, legacy_narration_events) ==
    IF ~timeline.present THEN Put(_default_timeline(legacy_narration_events))
    ELSE LET listed == IF timeline.narration_events.is_list
                       THEN timeline.narration_events.items ELSE <<>>
             action_events == DefaultIfNone(timeline.action_events)
             projected == Projected(listed, legacy_narration_events)
         IN  [value |-> [present |-> TRUE, timeline_version |-> TIMELINE_VERSION,
                         narration_events |-> [is_list |-> TRUE, items |-> projected.value],
                         action_events |-> action_events.value],
              changed |-> \/ timeline.timeline_version # TIMELINE_VERSION
                          \/ ~timeline.narration_events.is_list
                          \/ action_events.changed
                          \/ projected.changed]

\* dict(tts_settings.get("default_params") or {}) of the settings' tts
ParamsFrom(tts) == IF tts = "default" THEN "default_params" ELSE "custom_params"

_default_profile_from_tts_settings(tts) ==
    [present |-> TRUE, profile_id |-> "default", params |-> ParamsFrom(tts)]

\* lines 430-445
TtsProfilesAfter(tts_profiles, tts) ==
    LET default == IF tts_profiles.present THEN tts_profiles.default
                   ELSE [present |-> FALSE, profile_id |-> "", params |-> "None"]
    IN  IF ~default.present
        THEN Put([present |-> TRUE, default |-> _default_profile_from_tts_settings(tts)])
        ELSE [value |-> [present |-> TRUE,
                         default |-> [default EXCEPT
                             !.profile_id = IF @ = "" THEN "default" ELSE @,
                             !.params = IF @ = "None" THEN ParamsFrom(tts) ELSE @]],
              changed |-> \/ ~tts_profiles.present
                          \/ default.profile_id = ""
                          \/ default.params = "None"]

\* an entry of a stored history: a record, or something that is no dict
HistoryItem(record) == [is_dict |-> TRUE, rec |-> record]
NoRecord == [is_dict |-> FALSE, rec |-> [kind |-> "none"]]

RECURSIVE NormalizedRenders(_, _)
\* [normalize_render_record(item) for item in history if isinstance(item, dict)]
NormalizedRenders(items, now) ==
    IF items = <<>> THEN <<>>
    ELSE IF ~Head(items).is_dict THEN NormalizedRenders(Tail(items), now)
    ELSE <<HistoryItem(normalize_render_record(Head(items).rec, NoId, now))>>
         \o NormalizedRenders(Tail(items), now)

RECURSIVE NormalizedRuns(_, _)
NormalizedRuns(items, now) ==
    IF items = <<>> THEN <<>>
    ELSE IF ~Head(items).is_dict THEN NormalizedRuns(Tail(items), now)
    ELSE <<HistoryItem(normalize_demo_run_record(Head(items).rec, NoId, now))>>
         \o NormalizedRuns(Tail(items), now)

\* renders and demo as the migration reads them: has_last says the last-id
\* key is there, is_list that the history is a list
StoredHistory(has_last, last_id, is_list, items) ==
    [present |-> TRUE, has_last |-> has_last, last_id |-> last_id, is_list |-> is_list,
     items |-> items]
NoStoredHistory == [StoredHistory(FALSE, NoId, FALSE, <<>>) EXCEPT !.present = FALSE]

\* lines 447-471 and 473-497, with the normalized and trimmed history and the
\* id of its last record
HistoryAfter(stored, trimmed, latest_id) ==
    IF ~stored.present THEN Put(StoredHistory(TRUE, NoId, TRUE, <<>>))
    ELSE IF ~stored.is_list
    THEN Put(StoredHistory(TRUE, IF stored.has_last THEN stored.last_id ELSE NoId,
                           TRUE, <<>>))
    ELSE LET last_id == IF stored.has_last THEN stored.last_id ELSE NoId
             relinked == trimmed # <<>> /\ latest_id # NoId /\ last_id # latest_id
         IN  [value |-> StoredHistory(TRUE, IF relinked THEN latest_id ELSE last_id,
                                      TRUE, trimmed),
              changed |-> ~stored.has_last \/ stored.items # trimmed \/ relinked]

RendersAfter(renders_in, now) ==
    LET trimmed == _trim_history(NormalizedRenders(renders_in.items, now),
                                 _history_limit(IntV(MAX_RENDER_HISTORY), MAX_RENDER_HISTORY))
    IN  HistoryAfter(renders_in, trimmed,
                     IF trimmed = <<>> THEN NoId ELSE trimmed[Len(trimmed)].rec.render_id)

DemoAfter(demo_in, now) ==
    LET trimmed == _trim_history(NormalizedRuns(demo_in.items, now),
                                 _history_limit(IntV(MAX_DEMO_RUN_HISTORY), MAX_DEMO_RUN_HISTORY))
    IN  HistoryAfter(demo_in, trimmed,
                     IF trimmed = <<>> THEN NoId ELSE trimmed[Len(trimmed)].rec.run_id)

\* ensure_project_defaults at time now: the document afterwards, what it
\* returns, and the text written to demo_context.md
ensure_project_defaults(p, now) ==
    LET schema_version == SchemaVersionAfter(p.schema_version)
        settings == SettingsAfter(p.settings)
        segments == SegmentsAfter(p.segments)
        exports == ExportsAfter(p.exports)
        planning == PlanningAfter(p.planning)
        holistic == DefaultIfNone(p.holistic)
        timeline == TimelineAfter(p.timeline, _segments_to_narration_events(p.segments))
        tts_profiles == TtsProfilesAfter(p.tts_profiles, settings.value.tts)
        renders == RendersAfter(p.renders, now)
        demo == DemoAfter(p.demo, now)
    IN  [kind |-> "ensure_project_defaults",
         doc |-> [schema_version |-> schema_version.value, settings |-> settings.value,
                  segments |-> segments.value, exports |-> exports.value,
                  planning |-> planning.value, holistic |-> holistic.value,
                  timeline |-> timeline.value, tts_profiles |-> tts_profiles.value,
                  renders |-> renders.value, demo |-> demo.value],
         changed |-> \/ schema_version.changed \/ settings.changed \/ segments.changed
                     \/ exports.changed \/ planning.changed \/ holistic.changed
                     \/ timeline.changed \/ tts_profiles.changed \/ renders.changed
                     \/ demo.changed,
         demo_context_md |-> settings.value.demo_context]

\* applications of the migration to one document, one load after the other
MaxLoads == 2
\* legacy segments in a document
MaxLegacySegments == 2
\* entries in a stored history
MaxHistoryItems == 2

\* the document init_project writes (storage.py:556-608)
CompleteDoc ==
    [schema_version |-> SCHEMA_VERSION,
     settings |-> [EmptySettings EXCEPT
                      !.segmentation = "default", !.models = "default",
                      !.narration = "default", !.tts = "default", !.demo_context = "",
                      !.holistic = _default_holistic_settings,
                      !.narration_mode = "tts_only",
                      !.demo_capture_execution_mode =
                          [mode |-> "playwright_optional", clean |-> TRUE],
                      !.holistic_fallback_to_segment = "True"],
     segments |-> [is_list |-> TRUE, items |-> <<>>],
     exports |-> _default_exports,
     planning |-> [present |-> TRUE,
                   narration_global |-> [present |-> TRUE, status |-> "not_started"]],
     holistic |-> "default",
     timeline |-> _default_timeline(<<>>),
     tts_profiles |-> [present |-> TRUE,
                       default |-> _default_profile_from_tts_settings("default")],
     renders |-> StoredHistory(TRUE, NoId, TRUE, <<>>),
     demo |-> StoredHistory(TRUE, NoId, TRUE, <<>>)]

NoTtsProfiles ==
    [present |-> FALSE, default |-> [present |-> FALSE, profile_id |-> "", params |-> "None"]]

\* documents that differ from the complete one in their settings
SettingsShapes ==
    [present : {TRUE}, segmentation : {"None", "default"}, models : {"None", "custom"},
     narration : {"None", "default"}, tts : {"None", "default", "custom"},
     demo_context : {"None", "", "ctx"},
     holistic : {[present |-> FALSE, keyframe_density |-> "None",
                  match_confidence_threshold |-> "None"],
                 [present |-> TRUE, keyframe_density |-> "None",
                  match_confidence_threshold |-> "0.9"],
                 [present |-> TRUE, keyframe_density |-> "2.0",
                  match_confidence_threshold |-> "None"],
                 [present |-> TRUE, keyframe_density |-> "2.0",
                  match_confidence_threshold |-> "0.9"]},
     narration_mode : {"None", "unified"},
     demo_capture_execution_mode :
         {[mode |-> "", clean |-> TRUE], [mode |-> "bogus", clean |-> TRUE],
          [mode |-> "playwright_required", clean |-> FALSE],
          [mode |-> "playwright_required", clean |-> TRUE]},
     holistic_fallback_to_segment : {"None", "False"}]
    \cup {[EmptySettings EXCEPT !.present = FALSE]}

SettingsDocs ==
    {[CompleteDoc EXCEPT !.settings = st, !.tts_profiles = tts_profiles] :
        st \in SettingsShapes,
        tts_profiles \in {CompleteDoc.tts_profiles, NoTtsProfiles}}

\* documents that differ in the keys the migration only fills in
PlainDocs ==
    {[CompleteDoc EXCEPT !.schema_version = schema_version, !.exports = exports,
                         !.planning = planning, !.holistic = holistic,
                         !.tts_profiles = tts_profiles] :
        schema_version \in {"", "1.2.0", SCHEMA_VERSION, "3.0.0"},
        exports \in {[present |-> FALSE, artifacts |-> "None",
                      ffmpeg |-> [present |-> FALSE, commands |-> "None"]],
                     [present |-> TRUE, artifacts |-> "None",
                      ffmpeg |-> [present |-> FALSE, commands |-> "None"]],
                     [present |-> TRUE, artifacts |-> "custom",
                      ffmpeg |-> [present |-> TRUE, commands |-> "None"]],
                     [present |-> TRUE, artifacts |-> "custom",
                      ffmpeg |-> [present |-> TRUE, commands |-> "custom"]]},
        planning \in {[present |-> FALSE,
                       narration_global |-> [present |-> FALSE, status |-> "None"]],
                      [present |-> TRUE,
                       narration_global |-> [present |-> FALSE, status |-> "None"]],
                      [present |-> TRUE,
                       narration_global |-> [present |-> TRUE, status |-> "None"]],
                      [present |-> TRUE,
                       narration_global |-> [present |-> TRUE, status |-> "done"]]},
        holistic \in {"None", "custom"},
        tts_profiles \in {NoTtsProfiles,
                          [present |-> TRUE, default |-> NoTtsProfiles.default],
                          [present |-> TRUE,
                           default |-> [present |-> TRUE, profile_id |-> "",
                                        params |-> "None"]],
                          [present |-> TRUE,
                           default |-> [present |-> TRUE, profile_id |-> "custom",
                                        params |-> "custom_params"]]}}

LegacySegments ==
    {LegacySegment(TRUE, 1, 0, 1000, "one"),
     LegacySegment(TRUE, 1, 0, 1000, ""),
     LegacySegment(TRUE, -1, 2000, -1, "two"),
     LegacySegment(FALSE, -1, 0, -1, "")}

\* an event the timeline has already
TimelineEvent ==
    [id |-> <<IdName("a")>>, start_ms |-> 0, end_ms |-> 500, text |-> "hi",
     source_segment_id |-> -1]

\* documents that differ in their legacy segments and their timeline
TimelineDocs ==
    {[CompleteDoc EXCEPT !.schema_version = schema_version, !.segments = segments,
                         !.timeline = timeline] :
        schema_version \in {"1.2.0", SCHEMA_VERSION},
        segments \in {[is_list |-> FALSE, items |-> <<>>]}
                     \cup {[is_list |-> TRUE, items |-> items] :
                              items \in SeqsUpTo(LegacySegments, MaxLegacySegments)},
        timeline \in {[_default_timeline(<<>>) EXCEPT !.present = FALSE]}
                     \cup [present : {TRUE}, timeline_version : {"None", TIMELINE_VERSION},
                           narration_events : {[is_list |-> FALSE, items |-> <<>>],
                                               [is_list |-> TRUE, items |-> <<>>],
                                               [is_list |-> TRUE,
                                                items |-> <<TimelineEvent>>]},
                           action_events : {"None", "custom"}]}

\* entries of renders.history and demo.runs as stored: no dict, a record as
\* the pipeline appends it, one without id, time and status, one with an error
StoredRenders ==
    {NoRecord,
     HistoryItem(normalize_render_record(
         RawRenderRecord(RenderId(1), 1, "tts_only", NoCounts, NoCorrelation), NoId, 1)),
     HistoryItem([RawRenderRecord(NoId, 0, "", NoCounts, NoCorrelation)
                     EXCEPT !.status = ""]),
     HistoryItem([RawRenderRecord(RenderId(2), 0, "unified", NoCounts, NoCorrelation)
                     EXCEPT !.error = "boom"])}

StoredRuns ==
    {NoRecord,
     HistoryItem(normalize_demo_run_record(
         RawDemoRunRecord(DemoRunId(1), 1, TRUE, "demo_capture", "", NoCorrelation),
         NoId, 1)),
     HistoryItem(RawDemoRunRecord(NoId, 0, TRUE, "", "", NoCorrelation)),
     HistoryItem(RawDemoRunRecord(DemoRunId(2), 0, FALSE, "demo_capture", "boom",
                                  NoCorrelation))}

StoredHistories(entries, last_ids) ==
    {NoStoredHistory}
    \cup {StoredHistory(has_last, NoId, FALSE, <<>>) : has_last \in BOOLEAN}
    \cup {StoredHistory(FALSE, NoId, TRUE, items) :
             items \in SeqsUpTo(entries, MaxHistoryItems)}
    \cup {StoredHistory(TRUE, last_id, TRUE, items) :
             last_id \in last_ids, items \in SeqsUpTo(entries, MaxHistoryItems)}

\* documents that differ in their histories
HistoryDocs ==
    {[CompleteDoc EXCEPT !.renders = renders_in, !.demo = demo_in] :
        renders_in \in StoredHistories(StoredRenders, {NoId, RenderId(1)}),
        demo_in \in StoredHistories(StoredRuns, {NoId, DemoRunId(1)})}

ProjectDocs == SettingsDocs \cup PlainDocs \cup TimelineDocs \cup HistoryDocs

DefaultsInit ==
    /\ call \in {[fn |-> "ensure_project_defaults", doc |-> doc] : doc \in ProjectDocs}
    /\ ret = [kind |-> "none"]
    /\ RunnerIdle
    /\ ValidatorIdle
    /\ HistoryIdle
    /\ TtsIdle
    /\ StoreIdle
    /\ FsIdle

\* how often the migration was applied, and the document it was applied to last
Loads == IF ret.kind = "none" THEN 0 ELSE ret.loads

\* load_project: the migration is applied to what the load before left
EnsureDefaultsCall ==
    /\ call.fn = "ensure_project_defaults"
    /\ Loads < MaxLoads
    /\ LET doc == IF ret.kind = "none" THEN call.doc ELSE ret.doc
           r == ensure_project_defaults(doc, Loads + 1)
       IN  ret' = [kind |-> r.kind, doc |-> r.doc, changed |-> r.changed,
                   demo_context_md |-> r.demo_context_md,
                   before |-> doc, loads |-> Loads + 1]
    /\ UNCHANGED call
    /\ UNCHANGED outside_call

DefaultsNext == EnsureDefaultsCall

SpecDefaults == DefaultsInit /\ [][DefaultsNext]_vars

\* C27: applied to a document it was applied to before, the migration leaves
\* the document as it is and reports no change.
C27_Idempotent ==
    Loads >= 2 => (ret.doc = ret.before /\ ~ret.changed)

\* the migration was applied twice to a document whose history it had to
\* rewrite and whose settings it had to fill in
C27_Witness ==
    /\ Loads = 2
    /\ call.doc # ret.doc
    /\ \/ \E i \in DOMAIN call.doc.renders.items :
             /\ call.doc.renders.items[i].is_dict
             /\ call.doc.renders.items[i].rec.render_id = NoId
       \/ ~call.doc.settings.demo_capture_execution_mode.clean

\* the timeline of the document has at least one narration event
HasNarrationEvents(doc) ==
    /\ doc.timeline.present
    /\ doc.timeline.narration_events.is_list
    /\ doc.timeline.narration_events.items # <<>>

\* C28: when the timeline of the document loaded has a narration event, the
\* migration leaves its narration events as they are, whatever the legacy
\* segments are; narration events other than the timeline's own are the
\* legacy segments' events.
C28_LegacyOnlyWhenEmpty ==
    Loads >= 1 =>
        /\ HasNarrationEvents(call.doc) =>
               ret.doc.timeline.narration_events = call.doc.timeline.narration_events
        /\ ~HasNarrationEvents(call.doc) =>
               ret.doc.timeline.narration_events.items
                   = _segments_to_narration_events(call.doc.segments)

\* a document with a narration event and with legacy segments that have
\* events of their own was migrated
C28_Witness ==
    /\ Loads >= 1
    /\ HasNarrationEvents(call.doc)
    /\ _segments_to_narration_events(call.doc.segments) # <<>>

(***************************************************************************)
(* The JSON importer (timeline/importers.py _import_json_timeline) on the  *)
(* serialization of a timeline (timeline/models.py to_dict / from_dict). A *)
(* dict is the function from its keys to its values.                       *)
(***************************************************************************)
\* action events in one timeline
MaxActionEvents == 2

EmptyDict == [k \in {} |-> 0]
\* data.update(extra)
DictUpdate(data, extra) ==
    [k \in DOMAIN data \cup DOMAIN extra |-> IF k \in DOMAIN extra THEN extra[k] ELSE data[k]]
\* {k: v for k, v in data.items() if k not in known}
DictWithout(data, known) == [k \in DOMAIN data \ known |-> data[k]]

\* str(data.get(key) or default), _to_int(data.get(key), 0), dict(data.get(key) or {})
GetStr(data, key, default) ==
    IF key \in DOMAIN data THEN (IF data[key] = "" THEN default ELSE data[key]) ELSE default
GetInt(data, key) == IF key \in DOMAIN data THEN data[key] ELSE 0
GetDict(data, key) == IF key \in DOMAIN data THEN data[key] ELSE EmptyDict

\* NarrationEvent.to_dict
NarrationEventToDict(event) ==
    LET data == [id |-> event.id, start_ms |-> event.start_ms, end_ms |-> event.end_ms,
                 text |-> event.text, voice_profile_id |-> event.voice_profile_id]
        with_meta == IF event.meta # EmptyDict
                     THEN DictUpdate(data, [meta |-> event.meta]) ELSE data
    IN  DictUpdate(with_meta, event.extra)

\* NarrationEvent.from_dict
NarrationEventFromDict(data) ==
    [id |-> GetStr(data, "id", ""),
     start_ms |-> GetInt(data, "start_ms"),
     end_ms |-> GetInt(data, "end_ms"),
     text |-> GetStr(data, "text", ""),
     voice_profile_id |-> GetStr(data, "voice_profile_id", "default"),
     meta |-> GetDict(data, "meta"),
     extra |-> DictWithout(data, {"id", "start_ms", "end_ms", "text", "voice_profile_id",
                                  "meta"})]

\* the extra fields are left out
ActionEventToDictWithoutExtra(event) ==
    LET data == [id |-> event.id, at_ms |-> event.at_ms, action |-> event.action,
                 args |-> event.args]
    IN  IF event.target # "None" THEN DictUpdate(data, [target |-> event.target]) ELSE data

\* ActionEvent.to_dict; a target of None is kept as "None"
ActionEventToDict(event) ==
    LET data == [id |-> event.id, at_ms |-> event.at_ms, action |-> event.action,
                 args |-> event.args]
        with_target == IF event.target # "None"
                       THEN DictUpdate(data, [target |-> event.target]) ELSE data
    IN  DictUpdate(with_target, event.extra)

\* ActionEvent.from_dict
ActionEventFromDict(data) ==
    [id |-> GetStr(data, "id", ""),
     at_ms |-> GetInt(data, "at_ms"),
     action |-> GetStr(data, "action", ""),
     target |-> IF "target" \in DOMAIN data THEN data.target ELSE "None",
     args |-> GetDict(data, "args"),
     extra |-> DictWithout(data, {"id", "at_ms", "action", "target", "args"})]

\* Timeline.to_dict
TimelineToDict(timeline) ==
    [timeline_version |-> timeline.timeline_version,
     narration_events |-> [i \in DOMAIN timeline.narration_events |->
                              NarrationEventToDict(timeline.narration_events[i])],
     action_events |-> [i \in DOMAIN timeline.action_events |->
                           ActionEventToDict(timeline.action_events[i])]]

\* Timeline.from_dict
TimelineFromDict(data) ==
    [timeline_version |-> GetStr(data, "timeline_version", TIMELINE_VERSION),
     narration_events |-> [i \in DOMAIN data.narration_events |->
                              NarrationEventFromDict(data.narration_events[i])],
     action_events |-> [i \in DOMAIN data.action_events |->
                           ActionEventFromDict(data.action_events[i])]]

\* json.dumps of a dict and json.loads of the text: the text of an object
\* holds its members, each a key and a value
json_dumps(data) == {<<key, data[key]>> : key \in DOMAIN data}
json_loads(content) ==
    [key \in {member[1] : member \in content} |->
        (CHOOSE member \in content : member[1] = key)[2]]

\* the schema check of validate_timeline_payload: the version, the two
\* arrays, and the required fields of their entries
SchemaAccepts(payload) ==
    /\ {"timeline_version", "narration_events", "action_events"} \subseteq DOMAIN payload
    /\ payload.timeline_version = TIMELINE_VERSION
    /\ \A i \in DOMAIN payload.narration_events :
           {"id", "start_ms", "end_ms", "text"} \subseteq DOMAIN payload.narration_events[i]
    /\ \A i \in DOMAIN payload.action_events :
           {"id", "at_ms", "action"} \subseteq DOMAIN payload.action_events[i]

\* _validate_cross_field_rules: the text of the ValueError, "" if none
CrossFieldError(payload) ==
    LET narration_events == payload.narration_events
        action_events == payload.action_events
        bad(i) == \/ \E j \in 1..(i - 1) : narration_events[j].id = narration_events[i].id
                  \/ narration_events[i].end_ms <= narration_events[i].start_ms
    IN  IF \E i \in DOMAIN narration_events : bad(i)
        THEN LET i == CHOOSE i \in DOMAIN narration_events :
                          bad(i) /\ \A j \in 1..(i - 1) : ~bad(j)
             IN  IF \E j \in 1..(i - 1) : narration_events[j].id = narration_events[i].id
                 THEN "duplicate narration event id" ELSE "invalid time range"
        ELSE IF \E i, j \in DOMAIN action_events :
                    i # j /\ action_events[i].id = action_events[j].id
        THEN "duplicate action event id"
        ELSE ""

\* importers.py:35-50
_import_json_timeline(content) ==
    LET payload == json_loads(content)
    IN  IF ~SchemaAccepts(payload)
        THEN [kind |-> "TimelineImportError", code |-> "invalid_timeline_schema",
              message |-> "timeline schema error"]
        ELSE IF CrossFieldError(payload) # ""
        THEN [kind |-> "TimelineImportError", code |-> "invalid_timeline_schema",
              message |-> CrossFieldError(payload)]
        ELSE [kind |-> "Timeline", timeline |-> TimelineFromDict(payload)]

\* narration and action events of timelines, valid and not
SampleNarrationEvents ==
    {[id |-> id, start_ms |-> range[1], end_ms |-> range[2], text |-> "hi",
      voice_profile_id |-> shape[1], meta |-> shape[2], extra |-> shape[3]] :
        id \in {"n1", "n2"},
        range \in {<<0, 1000>>, <<1000, 1000>>},
        shape \in {<<"default", EmptyDict, EmptyDict>>,
                   <<"default", [source_line |-> 3], EmptyDict>>,
                   <<"narrator", [source_line |-> 3], [note |-> "take two"]>>}}

SampleActionEvents ==
    {[id |-> id, at_ms |-> 0, action |-> "click", target |-> shape[1], args |-> shape[2],
      extra |-> shape[3]] :
        id \in {"a1", "a2"},
        shape \in {<<"None", EmptyDict, EmptyDict>>,
                   <<"#go", [x |-> 1], [timeout_ms |-> 5000, retries |-> 2]>>}}

SampleTimelines ==
    [timeline_version : {TIMELINE_VERSION},
     narration_events : SeqsUpTo(SampleNarrationEvents, MaxTimelineEvents),
     action_events : SeqsUpTo(SampleActionEvents, MaxActionEvents)]

ImportInit ==
    /\ call \in {[fn |-> "import_narration_timeline", timeline |-> timeline,
                  content |-> json_dumps(TimelineToDict(timeline)),
                  import_format |-> "json"] : timeline \in SampleTimelines}
    /\ ret = [kind |-> "none"]
    /\ RunnerIdle
    /\ ValidatorIdle
    /\ HistoryIdle
    /\ TtsIdle
    /\ StoreIdle
    /\ FsIdle

\* import_narration_timeline(content, import_format="json")
ImportCall ==
    /\ call.fn = "import_narration_timeline"
    /\ ret.kind = "none"
    /\ ret' = _import_json_timeline(call.content)
    /\ UNCHANGED call
    /\ UNCHANGED outside_call

ImportNext == ImportCall

SpecImport == ImportInit /\ [][ImportNext]_vars

\* ids unique among the narration events and among the action events, and
\* every narration event ends after it starts
CanonicalTimeline(timeline) ==
    /\ \A i, j \in DOMAIN timeline.narration_events :
           i # j => timeline.narration_events[i].id # timeline.narration_events[j].id
    /\ \A i, j \in DOMAIN timeline.action_events :
           i # j => timeline.action_events[i].id # timeline.action_events[j].id
    /\ \A i \in DOMAIN timeline.narration_events :
           timeline.narration_events[i].end_ms > timeline.narration_events[i].start_ms

\* C29: importing the JSON serialization of a canonical timeline yields that
\* timeline, action events and extra fields included.
C29_RoundTrip ==
    (ret.kind # "none" /\ CanonicalTimeline(call.timeline))
        => (ret.kind = "Timeline" /\ ret.timeline = call.timeline)

\* a timeline with a narration event that has meta and an extra field, and an
\* action event with a target, args and extra fields, was imported
C29_Witness ==
    /\ ret.kind = "Timeline"
    /\ \E i \in DOMAIN call.timeline.narration_events :
           call.timeline.narration_events[i].extra # EmptyDict
    /\ \E i \in DOMAIN call.timeline.action_events :
           /\ call.timeline.action_events[i].extra # EmptyDict
           /\ call.timeline.action_events[i].target # "None"
    /\ Len(call.timeline.narration_events) = 2

(***************************************************************************)
(* Claims about the order in which a demo run executes its actions.        *)
(***************************************************************************)
\* executions[i] is of actions[i], and no action id is there twice
InActionOrder(execs) ==
    /\ Len(execs) <= Len(actions)
    /\ \A i \in DOMAIN execs : execs[i].action_id = actions[i].id
    /\ \A i, j \in DOMAIN execs : i # j => execs[i].action_id # execs[j].action_id

IsPrefix(s, t) == Len(s) <= Len(t) /\ SubSeq(t, 1, Len(s)) = s

\* C30: in every step of a run the executions logged so far stay as they are
\* and are those of the first actions, in the order of the list, each once; an
\* attempt is made only on the action after the last one logged, and while
\* that action has attempts left to make no execution is logged.
C30_SequentialExecution ==
    [][/\ IsPrefix(executions, executions')
       /\ InActionOrder(executions')
       /\ attempt_logs' # <<>> =>
              /\ executions' = executions
              /\ IsPrefix(attempt_logs, attempt_logs')
              /\ Len(attempt_logs') = Len(attempt_logs) + 1
              /\ Len(executions) < Len(actions)
       /\ (pc = "actions" /\ executions' # executions) =>
              /\ Len(executions') = Len(executions) + 1
              /\ IsPrefix(attempt_logs, executions'[Len(executions')].attempt_logs)
              /\ attempt_logs' = <<>>]_vars

\* Playwright did not start, the run fell back to the dry run, and both
\* actions of the list were executed
C30_Witness ==
    /\ pc = "done"
    /\ dependency_status.error = RuntimeFailureMessage
    /\ ~used_playwright
    /\ runtime_error # ""
    /\ Len(actions) = 2
    /\ Len(executions) = 2

(***************************************************************************)
(* DemoRunner.execute: termination.                                        *)
(***************************************************************************)
\* execute is straight-line code in one thread around two for-loops over finite
\* ranges; every browser call carries the action's timeout, so a step that is
\* enabled is eventually taken.
SpecTerminating == Init /\ [][Next]_vars /\ WF_vars(Next)

DemoRunModes == {"demo_capture_playwright", "demo_capture_failed", "demo_capture_dry_run"}

\* attempts made so far: those of the logged executions and those of the action
\* in its retry loop
AttemptsMade ==
    SumSeq([i \in DOMAIN executions |-> executions[i].attempts]) + Len(attempt_logs)

AttemptBudget == SumSeq([i \in DOMAIN actions |-> 1 + actions[i].retries])

\* C31: whatever the browser, the transcode and the probe do, a demo run makes at
\* most sum(1 + retries) action attempts and ends by returning a DemoRunResult in
\* one of the three modes; the errors of actions and of the Playwright runtime are
\* caught on the way and none leaves execute.
C31_Terminates ==
    /\ [](AttemptsMade <= AttemptBudget)
    /\ <>[](/\ pc = "done"
            /\ result # NoResult
            /\ result.mode \in DemoRunModes
            /\ AttemptsMade <= AttemptBudget)

C31_Witness ==
    /\ pc = "done"
    /\ result.mode = "demo_capture_failed"
    /\ used_playwright
    /\ runtime_error # ""
    /\ Len(executions) = 2
    /\ executions[1].status = "error"
    /\ executions[1].attempts = 2
    /\ AttemptsMade = AttemptBudget - 1

(***************************************************************************)
(* DemoRunner._execute_action_with_retry on one action, with the calls it  *)
(* makes on the page.                                                      *)
(***************************************************************************)
\* The page method one call of _execute_action invokes (lines 244-261); goto,
\* click, fill and press each invoke the method of their name.
PageCallsOf(action) ==
    IF action.action = "wait"
    THEN IF action.ms > action.timeout_ms THEN <<>>
         ELSE IF action.ms > 0 THEN <<"wait_for_timeout">>
         ELSE <<>>
    ELSE <<action.action>>

\* Every way the retry loop can go from attempt `attempt` on: the execution it
\* returns and the page calls made, the screenshot of a failed action included.
RECURSIVE RetryRuns(_, _, _, _)
RetryRuns(action, attempt, logs, calls) ==
    UNION {LET logs_after == Append(logs, AttemptLog(attempt, outcome))
               calls_after == calls \o PageCallsOf(action)
           IN IF WillRetry(action, attempt, outcome)
              THEN RetryRuns(action, attempt + 1, logs_after, calls_after)
              ELSE {[kind |-> "DemoActionExecution",
                     execution |-> DemoActionExecution(action, attempt, logs_after),
                     page_calls |-> IF outcome.ok THEN calls_after
                                    ELSE Append(calls_after, "screenshot")]}
           : outcome \in _execute_action(action)}

_execute_action_with_retry(action) == RetryRuns(action, 1, <<>>, <<>>)

\* Waits below, at and above the action timeout, and a click, with every retries
\* value the validator lets through.
RetryActionShapes ==
    [action : {"click"}, ms : {0}, timeout_ms : {MIN_ACTION_TIMEOUT_MS},
     retries : MIN_ACTION_RETRIES..MAX_ACTION_RETRIES]
    \cup [action : {"wait"},
          ms : {0, MIN_ACTION_TIMEOUT_MS, MIN_ACTION_TIMEOUT_MS + 1, 2 * MIN_ACTION_TIMEOUT_MS},
          timeout_ms : {MIN_ACTION_TIMEOUT_MS},
          retries : MIN_ACTION_RETRIES..MAX_ACTION_RETRIES]

RetryInit ==
    /\ call \in {[fn |-> "_execute_action_with_retry", action |-> WithId(shape, 1)]
                 : shape \in RetryActionShapes}
    /\ ret = [kind |-> "none"]
    /\ RunnerIdle
    /\ ValidatorIdle
    /\ HistoryIdle
    /\ TtsIdle
    /\ StoreIdle
    /\ FsIdle

RetryCall ==
    /\ call.fn = "_execute_action_with_retry"
    /\ ret.kind = "none"
    /\ ret' \in _execute_action_with_retry(call.action)
    /\ UNCHANGED call
    /\ UNCHANGED outside_call

RetryNext == RetryCall

SpecActionRetry == RetryInit /\ [][RetryNext]_vars

\* C32: a wait whose ms is above its timeout_ms never reaches
\* page.wait_for_timeout; each of its attempts raises the TimeoutError, and the
\* action ends as an error of type timeout after exactly 1 + retries attempts.
C32_WaitOverTimeout ==
    (/\ ret.kind = "DemoActionExecution"
     /\ call.action.action = "wait"
     /\ call.action.ms > call.action.timeout_ms)
    => /\ \A i \in DOMAIN ret.page_calls : ret.page_calls[i] # "wait_for_timeout"
       /\ ret.execution.status = "error"
       /\ ret.execution.error_type = "timeout"
       /\ ret.execution.attempts = 1 + call.action.retries
       /\ Len(ret.execution.attempt_logs) = 1 + call.action.retries
       /\ \A i \in DOMAIN ret.execution.attempt_logs :
             /\ ret.execution.attempt_logs[i].status = "error"
             /\ ret.execution.attempt_logs[i].error_type = "timeout"

C32_Witness ==
    /\ ret.kind = "DemoActionExecution"
    /\ call.action.action = "wait"
    /\ call.action.ms = call.action.timeout_ms + 1
    /\ call.action.retries = 2
    /\ ret.execution.attempts = 3
    /\ ret.page_calls = <<"screenshot">>

(***************************************************************************)
(* The TTS cache across renders.                                           *)
(***************************************************************************)
\* the cache file of the segment the loop of the render is at
NextSegmentCacheFile ==
    LET seg == timeline_segments[seg_idx + 1]
    IN tts_cache_path("tts", RequestKey(seg.text, seg.profile, tts_endpoint))

\* an iteration of the segment loop that went through
SegmentStep == tpc = "segments" /\ Len(seg_tts') = Len(seg_tts) + 1

\* C33: the silence made for a segment whose TTS call failed is stored in the
\* cache under the key of the segment, with the length of the segment; a segment
\* whose cache file holds such silence is served from it as a cache hit, without
\* a TTS call and without a change of the cache, whatever the endpoint would
\* answer by then.
C33_SilencePersisted ==
    [][SegmentStep =>
          LET this == seg_tts'[Len(seg_tts')]
              seg == timeline_segments[seg_idx + 1]
          IN /\ this.observed.failed =>
                    [path |-> NextSegmentCacheFile,
                     audio |-> Audio(seg.duration_ms, TRUE)] \in tts_cache'
             /\ (\E f \in tts_cache : f.path = NextSegmentCacheFile /\ f.audio.silent) =>
                    /\ this.attempts[1].result.cache_hit
                    /\ ~this.observed.called
                    /\ this.observed.silent
                    /\ tts_cache' = tts_cache]_vars

\* the second render of a project with an endpoint, after a first render that
\* completed: its first segment came out of the cache as silence
C33_Witness ==
    /\ tts_endpoint # ""
    /\ rendered
    /\ renders_started = 2
    /\ tpc = "segments"
    /\ seg_tts # <<>>
    /\ seg_tts[1].attempts[1].result.cache_hit
    /\ seg_tts[1].observed.repeated
    /\ seg_tts[1].observed.silent
    /\ ~seg_tts[1].observed.called

(***************************************************************************)
(* Renders of a timeline whose events repeat a text in slots of different  *)
(* lengths.                                                                *)
(***************************************************************************)
\* one text under one profile, in a slot of two seconds and in a slot of one
RepeatedTextShapes ==
    {[text |-> "hi there", profile |-> "default", duration_ms |-> 2000],
     [text |-> "hi there", profile |-> "default", duration_ms |-> 1000]}

RepeatedTextInit ==
    /\ disk = InitialProject
    /\ tts_endpoint \in {"", "http://tts"}
    /\ timeline_segments \in SeqsUpTo(RepeatedTextShapes, MaxSegments)
    /\ tts_cache = {}
    /\ requests = {}
    /\ renders_started = 0
    /\ previews_made = 0
    /\ rendered = FALSE
    /\ tpc = "idle"
    /\ seg_idx = 0
    /\ seg_tts = <<>>
    /\ cache_hits = 0
    /\ generated = 0
    /\ response = [kind |-> "none"]
    /\ RunnerIdle
    /\ ValidatorIdle
    /\ HistoryIdle
    /\ StoreIdle
    /\ FsIdle
    /\ CallIdle

SpecRepeatedText == RepeatedTextInit /\ [][TtsNext]_vars

\* C34 as stated: the audio_duration_ms recorded for a segment is at most the
\* length of the segment, for audio that was generated, for silence and for
\* audio restored from the cache.
C34_AsStated ==
    \A i \in 1..Len(SegmentsReturned) :
        SegmentsReturned[i].audio_duration_ms <= timeline_segments[i].duration_ms

\* a segment of one second served from the cache entry that the segment of two
\* seconds before it left there
C34_Witness ==
    /\ Len(SegmentsReturned) = 2
    /\ timeline_segments[1].duration_ms = 2000
    /\ timeline_segments[2].duration_ms = 1000
    /\ ~SegmentsReturned[1].attempts[1].result.cache_hit
    /\ SegmentsReturned[2].attempts[1].result.cache_hit
    /\ SegmentsReturned[2].audio_duration_ms = 2000

(***************************************************************************)
(* normalize_narration_events and the length of the video.                 *)
(***************************************************************************)
\* C35: with a known video duration every event normalize_narration_events
\* returns starts before the end of the video and ends no later than it, its
\* end_ms given or inferred.
C35_WithinVideo ==
    (ret.kind = "events" /\ call.fn = "normalize_narration_events"
     /\ call.video_duration_ms > 0)
    => \A i \in DOMAIN ret.events :
          /\ ret.events[i].start_ms < call.video_duration_ms
          /\ ret.events[i].end_ms <= call.video_duration_ms

\* of three events for a video of 1000 ms, the one starting at 1000 was dropped,
\* and of the two kept the one with an end_ms and the one without both end at 1000
C35_Witness ==
    /\ ret.kind = "events"
    /\ call.fn = "normalize_narration_events"
    /\ call.video_duration_ms = 1000
    /\ Len(call.raw_events) = 3
    /\ Len(ret.events) = 2
    /\ \E i \in DOMAIN call.raw_events : call.raw_events[i].start_ms = 1000
    /\ \E i, j \in DOMAIN call.raw_events :
          /\ call.raw_events[i].start_ms = 0 /\ call.raw_events[i].end_ms = -1
          /\ call.raw_events[j].start_ms = 0 /\ call.raw_events[j].end_ms = 1000
    /\ \A i \in DOMAIN ret.events : ret.events[i].end_ms = 1000

(***************************************************************************)
(* The timeline endpoints of the API (main.py): POST timeline/import and   *)
(* PATCH timeline/narration/{event_id}. Each is a function of project.json *)
(* as it stands and of the request, to the response and project.json       *)
(* afterwards. A project is kept as the document the migration reads, the  *)
(* duration of its source video and updated_at; the meta of an event is    *)
(* left out.                                                               *)
(***************************************************************************)
\* lines of a script
MaxScriptLines == 2

NoProject == [kind |-> "none"]
StoredProject(doc, duration_ms, updated_at) ==
    [kind |-> "project", doc |-> doc, source_duration_ms |-> duration_ms,
     updated_at |-> updated_at]

\* load_project: json.loads of the file, then the migration in place
LoadProjectAsStored(project) == project

load_project(project) ==
    [project EXCEPT !.doc = ensure_project_defaults(project.doc, project.updated_at + 1).doc]

\* save_project: updated_at is the time of the save
save_project(this_project) == [this_project EXCEPT !.updated_at = @ + 1]

\* the error is answered and what the handler changed in memory is written all the same
RejectAfterSaving(status_code, detail, project, in_memory) ==
    [kind |-> "HTTPException", status_code |-> status_code, detail |-> detail,
     project |-> IF project = NoProject THEN project ELSE save_project(in_memory)]

\* raise HTTPException(...): the handler ends before save_project; project.json
\* stays as it was, whatever the copy in memory has become
Reject(status_code, detail, project, in_memory) ==
    [kind |-> "HTTPException", status_code |-> status_code, detail |-> detail,
     project |-> project]

\* A script as its lines: a line of a timestamped script ([MM:SS] text, end_ms
\* -1), a block of an SRT (start --> end, text), a comment or blank line, or a
\* line that neither parser reads.
ScriptLine(kind, start_ms, end_ms, text) ==
    [kind |-> kind, start_ms |-> start_ms, end_ms |-> end_ms, text |-> text]

RECURSIVE TimestampedEntries(_, _)
\* the entries of the lines from line_no on
TimestampedEntries(lines, line_no) ==
    IF line_no > Len(lines) THEN <<>>
    ELSE IF lines[line_no].kind = "comment" THEN TimestampedEntries(lines, line_no + 1)
    ELSE <<[is_dict |-> TRUE, id |-> <<IdN(line_no)>>, start_ms |-> lines[line_no].start_ms,
            end_ms |-> -1, text |-> lines[line_no].text]>>
         \o TimestampedEntries(lines, line_no + 1)

parse_timestamped_txt(lines) ==
    IF \E i \in DOMAIN lines : lines[i].kind \notin {"comment", "timestamped"}
    THEN [kind |-> "TimelineImportError", code |-> "invalid_timestamped_line", events |-> <<>>]
    ELSE IF TimestampedEntries(lines, 1) = <<>>
    THEN [kind |-> "TimelineImportError", code |-> "empty_input", events |-> <<>>]
    ELSE [kind |-> "events", code |-> "", events |-> TimestampedEntries(lines, 1)]

\* blank lines between blocks are skipped; block_idx counts the blocks
parse_srt(lines) ==
    LET blocks == SelectSeq(lines, LAMBDA line : line.kind # "comment")
        bad(i) == blocks[i].kind # "srt" \/ blocks[i].end_ms <= blocks[i].start_ms
    IN  IF \E i \in DOMAIN blocks : bad(i)
        THEN LET i == CHOOSE i \in DOMAIN blocks : bad(i) /\ \A j \in 1..(i - 1) : ~bad(j)
             IN  [kind |-> "TimelineImportError",
                  code |-> IF blocks[i].kind # "srt" THEN "invalid_srt_timestamp"
                           ELSE "invalid_time_range",
                  events |-> <<>>]
        ELSE IF blocks = <<>>
        THEN [kind |-> "TimelineImportError", code |-> "empty_input", events |-> <<>>]
        ELSE [kind |-> "events", code |-> "",
              events |-> [i \in DOMAIN blocks |->
                             [is_dict |-> TRUE, id |-> <<IdN(i)>>,
                              start_ms |-> blocks[i].start_ms,
                              end_ms |-> blocks[i].end_ms, text |-> blocks[i].text]]]

\* _detect_import_format without a source name: "-->" in the content
_detect_import_format(lines) ==
    IF \E i \in DOMAIN lines : lines[i].kind = "srt" THEN "srt" ELSE "timestamped_txt"

\* NarrationEvent.from_dict(event).to_dict() on the fields kept
StoredEvent(event) ==
    [id |-> event.id, start_ms |-> event.start_ms, end_ms |-> event.end_ms,
     text |-> event.text,
     voice_profile_id |-> IF event.voice_profile_id = "" THEN "default"
                          ELSE event.voice_profile_id]

\* Timeline(narration_events=..., action_events=[]).to_dict()
ImportedTimeline(events) ==
    [present |-> TRUE, timeline_version |-> TIMELINE_VERSION,
     narration_events |-> [is_list |-> TRUE,
                           items |-> [i \in DOMAIN events |-> StoredEvent(events[i])]],
     action_events |-> "default"]

\* importers.py:53-83 for the timestamped and the SRT format
import_narration_timeline(lines, import_format, video_duration_ms) ==
    LET fmt == IF import_format = "auto" THEN _detect_import_format(lines) ELSE import_format
        parsed_events == IF fmt = "srt" THEN parse_srt(lines) ELSE parse_timestamped_txt(lines)
        normalized == normalize_narration_events(parsed_events.events, video_duration_ms)
    IN  IF fmt \notin {"srt", "timestamped_txt"}
        THEN [kind |-> "TimelineImportError", code |-> "unsupported_format"]
        ELSE IF parsed_events.kind = "TimelineImportError"
        THEN [kind |-> "TimelineImportError", code |-> parsed_events.code]
        ELSE IF normalized.kind = "TimelineImportError"
        THEN [kind |-> "TimelineImportError", code |-> normalized.code]
        ELSE [kind |-> "Timeline", code |-> "", timeline |-> ImportedTimeline(normalized.events)]

\* main.py:301-333
import_timeline(project, body) ==
    IF project = NoProject THEN Reject(404, "Project not found", project, project)
    ELSE LET this_project == load_project(project)
             imported == import_narration_timeline(body.content, body.import_format,
                                                   Max(0, project.source_duration_ms))
         IN  IF imported.kind = "TimelineImportError"
             THEN Reject(400, imported.code, project, this_project)
             ELSE [kind |-> "TimelineImportResponse",
                   import_format |-> body.import_format,
                   narration_event_count |->
                       Len(imported.timeline.narration_events.items),
                   action_event_count |-> 0,
                   timeline_version |-> imported.timeline.timeline_version,
                   project |-> save_project(
                       [this_project EXCEPT !.doc.timeline = imported.timeline,
                                    !.doc.settings.narration_mode = "tts_only"])]

\* the action events a stored timeline stands for
ActionEventsOf(tag) ==
    IF tag = "custom" THEN <<[id |-> "a1", at_ms |-> 0, action |-> "click"]>> ELSE <<>>

\* the timeline as validate_timeline_payload is handed it
TimelinePayload(timeline) ==
    [timeline_version |-> timeline.timeline_version,
     narration_events |-> timeline.narration_events.items,
     action_events |-> ActionEventsOf(timeline.action_events)]

\* an absent field of the body is -1 or "None"
PatchBody(start_ms, end_ms, text, voice_profile_id) ==
    [start_ms |-> start_ms, end_ms |-> end_ms, text |-> text,
     voice_profile_id |-> voice_profile_id]

\* target_event.update({k: v for k, v in updates.items() if v is not None})
UpdatedEvent(event, body) ==
    [event EXCEPT !.start_ms = IF body.start_ms # -1 THEN body.start_ms ELSE @,
                  !.end_ms = IF body.end_ms # -1 THEN body.end_ms ELSE @,
                  !.text = IF body.text # "None" THEN Strip(body.text) ELSE @,
                  !.voice_profile_id = IF body.voice_profile_id # "None"
                                       THEN body.voice_profile_id ELSE @]

\* the events as normalize_narration_events is handed them
AsRawEvents(items) ==
    [i \in DOMAIN items |->
        [is_dict |-> TRUE, id |-> items[i].id, start_ms |-> items[i].start_ms,
         end_ms |-> items[i].end_ms, text |-> items[i].text,
         voice_profile_id |-> items[i].voice_profile_id]]

\* lines 384-389: the first event with the id asked for, else the first event
ReturnedEvent(events, event_id) ==
    IF \E i \in DOMAIN events : events[i].id = event_id
    THEN events[CHOOSE i \in DOMAIN events :
                    events[i].id = event_id /\ \A j \in 1..(i - 1) : events[j].id # event_id]
    ELSE events[1]

\* main.py:345-390
patch_narration_event(project, event_id, body) ==
    IF project = NoProject THEN Reject(404, "Project not found", project, project)
    ELSE
    LET this_project == load_project(project)
        timeline == this_project.doc.timeline
        items == timeline.narration_events.items
        found == {i \in DOMAIN items : items[i].id = event_id}
        target == CHOOSE i \in found : \A j \in found : i <= j
        updated == [items EXCEPT ![target] = UpdatedEvent(@, body)]
        in_memory == [this_project EXCEPT !.doc.timeline.narration_events.items = updated]
        normalized == normalize_narration_events(AsRawEvents(updated),
                                                 Max(0, project.source_duration_ms))
        patched == [this_project EXCEPT !.doc.timeline.narration_events.items = normalized.events]
        payload == TimelinePayload(patched.doc.timeline)
    IN  IF ~timeline.present
        THEN Reject(400, "Timeline not initialized for project", project, this_project)
        ELSE IF ~timeline.narration_events.is_list
        THEN Reject(400, "Timeline narration events are invalid", project, this_project)
        ELSE IF found = {}
        THEN Reject(404, "Narration event not found", project, this_project)
        ELSE IF body.text # "None" /\ Strip(body.text) = ""
        THEN Reject(400, "Narration text cannot be empty", project, this_project)
        ELSE IF normalized.kind = "TimelineImportError"
        THEN Reject(400, normalized.code, project, in_memory)
        ELSE IF ~SchemaAccepts(payload)
        THEN Reject(400, "timeline schema error", project, patched)
        ELSE IF CrossFieldError(payload) # ""
        THEN Reject(400, CrossFieldError(payload), project, patched)
        ELSE [kind |-> "PatchNarrationEventResponse",
              event |-> ReturnedEvent(normalized.events, event_id),
              project |-> save_project(patched)]

\* lines of scripts: timestamped lines at 0, 1000 and 4000 ms, a comment, a line
\* no parser reads, and SRT blocks, the last with its end at its start
ScriptLines ==
    {ScriptLine("timestamped", 0, -1, "one"), ScriptLine("timestamped", 1000, -1, "two"),
     ScriptLine("timestamped", 4000, -1, "late"), ScriptLine("comment", 0, -1, ""),
     ScriptLine("bad", 0, -1, ""), ScriptLine("srt", 0, 1000, "one"),
     ScriptLine("srt", 1000, 5000, "two"), ScriptLine("srt", 2000, 2000, "three")}

ImportBodies ==
    [content : SeqsUpTo(ScriptLines, MaxScriptLines),
     import_format : {"auto", "timestamped_txt", "srt"}]

PatchBodies ==
    [start_ms : {-1, 0, 1000, 3000}, end_ms : {-1, 500, 5000}, text : {"None", " ", "new"},
     voice_profile_id : {"None", "narrator"}]

\* the ids asked for: of the first line, of the second, of none
PatchEventIds == {<<IdN(1)>>, <<IdN(2)>>, <<IdN(9)>>}

\* Projects before any import: as init_project writes them, with action events
\* in the timeline, and as a version before the timeline wrote them; for a
\* video of unknown and of known length.
FreshProjects ==
    {StoredProject(doc, duration_ms, 1) :
        doc \in {CompleteDoc,
                 [CompleteDoc EXCEPT !.timeline.action_events = "custom"],
                 [CompleteDoc EXCEPT !.schema_version = "1.2.0",
                                     !.timeline.present = FALSE,
                                     !.settings.narration_mode = "None"]},
        duration_ms \in {0, 3000}}

\* the scripts imported into them
StoredScripts ==
    {<<ScriptLine("timestamped", 0, -1, "one")>>,
     <<ScriptLine("timestamped", 0, -1, "one"), ScriptLine("timestamped", 1000, -1, "two")>>,
     <<ScriptLine("srt", 0, 1000, "one"), ScriptLine("srt", 1000, 5000, "two")>>}

\* project.json when a request arrives: none, a fresh project, a project after
\* an import, and one whose timeline got action events after that
StoredProjects ==
    LET imported == {import_timeline(project, [content |-> content, import_format |-> "auto"])
                         .project : project \in FreshProjects, content \in StoredScripts}
    IN  {NoProject} \cup FreshProjects \cup imported
        \cup {[project EXCEPT !.doc.timeline.action_events = "custom"] :
                  project \in imported}

TimelineApiInit ==
    /\ call \in {[fn |-> "import_timeline", project |-> project, body |-> body] :
                    project \in StoredProjects, body \in ImportBodies}
           \cup {[fn |-> "patch_narration_event", project |-> project,
                  event_id |-> event_id, body |-> body] :
                    project \in StoredProjects, event_id \in PatchEventIds,
                    body \in PatchBodies}
    /\ ret = [kind |-> "none"]
    /\ RunnerIdle
    /\ ValidatorIdle
    /\ HistoryIdle
    /\ TtsIdle
    /\ StoreIdle
    /\ FsIdle

ImportTimelineCall ==
    /\ call.fn = "import_timeline"
    /\ ret.kind = "none"
    /\ ret' = import_timeline(call.project, call.body)
    /\ UNCHANGED call
    /\ UNCHANGED outside_call

PatchNarrationEventCall ==
    /\ call.fn = "patch_narration_event"
    /\ ret.kind = "none"
    /\ ret' = patch_narration_event(call.project, call.event_id, call.body)
    /\ UNCHANGED call
    /\ UNCHANGED outside_call

TimelineApiNext ==
    \/ ImportTimelineCall
    \/ PatchNarrationEventCall

SpecTimelineApi == TimelineApiInit /\ [][TimelineApiNext]_vars

\* C36 as stated: a PATCH of event E that is answered with success returns the
\* event with id E, holding every value the body supplied.
C36_AsStated ==
    ret.kind = "PatchNarrationEventResponse" =>
        /\ ret.event.id = call.event_id
        /\ call.body.start_ms # -1 => ret.event.start_ms = call.body.start_ms
        /\ call.body.end_ms # -1 => ret.event.end_ms = call.body.end_ms
        /\ call.body.text # "None" => ret.event.text = Strip(call.body.text)
        /\ call.body.voice_profile_id # "None" =>
               ret.event.voice_profile_id = call.body.voice_profile_id

\* the second of two events was moved to the end of the video, the PATCH
\* succeeded and the event returned is the first
C36_Witness ==
    /\ ret.kind = "PatchNarrationEventResponse"
    /\ call.project.source_duration_ms = 3000
    /\ call.event_id = <<IdN(2)>>
    /\ call.body.start_ms = 3000
    /\ ret.event.id = <<IdN(1)>>
    /\ Len(ret.project.doc.timeline.narration_events.items) = 1

\* C39: an import answered with 400 and a PATCH answered with 400 or 404 leave
\* project.json as it was before the request, every field of it.
C39_RejectedLeavesProject ==
    (/\ ret.kind = "HTTPException"
     /\ \/ call.fn = "import_timeline" /\ ret.status_code = 400
        \/ call.fn = "patch_narration_event" /\ ret.status_code \in {400, 404})
    => ret.project = call.project

\* a PATCH that had changed the event in memory and was then refused by the
\* normalization, which had no event left
C39_Witness ==
    /\ ret.kind = "HTTPException"
    /\ call.fn = "patch_narration_event"
    /\ ret.status_code = 400
    /\ ret.detail = "empty_output"
    /\ call.body.text = "new"
    /\ call.project # NoProject
    /\ ret.project = call.project

\* the document the load hands the handler
MigratedDoc(project) == ensure_project_defaults(project.doc, project.updated_at + 1).doc

\* C40: after a successful import of a timestamped or SRT script the stored
\* timeline is the imported one, with no action events whatever it held before;
\* the rest of project.json is the document as the load's migration completes
\* it, with narration_mode tts_only and a new updated_at.
C40_ImportReplacesTimeline ==
    ret.kind = "TimelineImportResponse" =>
        /\ ret.project.doc.timeline.action_events = "default"
        /\ ActionEventsOf(ret.project.doc.timeline.action_events) = <<>>
        /\ Len(ret.project.doc.timeline.narration_events.items) = ret.narration_event_count
        /\ ret.project.doc =
               [MigratedDoc(call.project) EXCEPT
                   !.timeline = ret.project.doc.timeline,
                   !.settings.narration_mode = "tts_only"]
        /\ ret.project.source_duration_ms = call.project.source_duration_ms
        /\ ret.project.updated_at # call.project.updated_at

\* C40 as stated: the import changes no top-level field of project.json but the
\* timeline, settings.narration_mode and updated_at.
C40_AsStated ==
    ret.kind = "TimelineImportResponse" =>
        /\ ret.project.doc.timeline.action_events = "default"
        /\ ret.project.doc =
               [call.project.doc EXCEPT
                   !.timeline = ret.project.doc.timeline,
                   !.settings.narration_mode = "tts_only"]
        /\ ret.project.source_duration_ms = call.project.source_duration_ms

\* a script of two lines was imported over a timeline with events and action
\* events
C40_Witness ==
    /\ ret.kind = "TimelineImportResponse"
    /\ call.project.doc.timeline.present
    /\ call.project.doc.timeline.action_events = "custom"
    /\ call.project.doc.timeline.narration_events.items # <<>>
    /\ ret.narration_event_count = 2
    /\ ret.project.doc.timeline.action_events = "default"
    /\ ret.project.doc.timeline.narration_events.items
           # call.project.doc.timeline.narration_events.items

(***************************************************************************)
(* The record of a demo-capture job (jobs.py:51-77)                        *)
(***************************************************************************)

\* demo.runs of the copy a writer holds, empty when the key holds no dict
RunsLoaded(writer) ==
    IF writer.proj.demo.present THEN writer.proj.demo.runs ELSE <<>>

\* writer w is a demo job whose capture returns in this step
DemoJobReturns(w) ==
    /\ jobs[w].kind = "demo_job"
    /\ jobs[w].pc = "capturing"
    /\ jobs'[w].pc = "done"

\* C37: a demo-capture job whose capture returns a result, ok or failed,
\* appends one record to the demo.runs it loaded: the record carries the
\* job's run_id, the result's ok and correlation.trigger = api_demo_run;
\* demo.last_run_id becomes that run_id, and the project saved is that copy.
C37_DemoJobRecorded ==
    [][\A w \in Writers :
          DemoJobReturns(w) =>
              LET before == RunsLoaded(jobs[w])
                  after == store'.demo.runs
                  kept == Len(after) - 1
              IN  /\ store'.demo.present
                  /\ after # <<>>
                  /\ after[Len(after)].run_id = DemoRunId(w)
                  /\ after[Len(after)].ok = jobs'[w].demo_result.ok
                  /\ after[Len(after)].correlation.trigger = "api_demo_run"
                  /\ Len(after) = Min(Len(before) + 1, MAX_DEMO_RUN_HISTORY)
                  /\ SubSeq(after, 1, kept)
                         = SubSeq(before, Len(before) - kept + 1, Len(before))
                  /\ store'.demo.last_run_id = DemoRunId(w)
                  /\ store' = jobs'[w].proj]_vars

\* a demo job whose capture failed is done after another writer's run was
\* stored: its record is the last of two and demo.last_run_id names it
C37_Witness ==
    \E w \in Writers :
        /\ jobs[w].kind = "demo_job"
        /\ jobs[w].pc = "done"
        /\ ~jobs[w].demo_result.ok
        /\ Len(store.demo.runs) = 2
        /\ store.demo.runs[2].run_id = DemoRunId(w)
        /\ ~store.demo.runs[2].ok
        /\ store.demo.runs[2].correlation.trigger = "api_demo_run"
        /\ store.demo.last_run_id = DemoRunId(w)

(***************************************************************************)
(* Renders that fail (tts_only.py:77-254).                                 *)
(***************************************************************************)
\* a segment of the default profile and one whose voice_profile_id names no
\* profile of the project
FailingRenderShapes ==
    {[text |-> "hi there", profile |-> "default", duration_ms |-> 1000],
     [text |-> "hi there", profile |-> "ghost", duration_ms |-> 1000]}

\* a project with or without a render behind it, with no, one or two segments
RenderFailuresInit ==
    /\ disk \in {InitialProject, UsedProject}
    /\ tts_endpoint \in {"", "http://tts"}
    /\ timeline_segments \in SeqsUpTo(FailingRenderShapes, MaxSegments)
    /\ tts_cache = {}
    /\ requests = {}
    /\ renders_started = 0
    /\ previews_made = 0
    /\ rendered = FALSE
    /\ tpc = "idle"
    /\ seg_idx = 0
    /\ seg_tts = <<>>
    /\ cache_hits = 0
    /\ generated = 0
    /\ response = [kind |-> "none"]
    /\ RunnerIdle
    /\ ValidatorIdle
    /\ HistoryIdle
    /\ StoreIdle
    /\ FsIdle
    /\ CallIdle

SpecRenderFailures == RenderFailuresInit /\ [][TtsNext]_vars

\* a step in which run_tts_only_pipeline raises
RenderFails ==
    /\ tpc' = "idle"
    /\ tpc = "segments" \/ renders_started' # renders_started
    /\ ~response'.ok

\* C38: a render that fails, for a missing source video, a timeline without
\* usable narration events, an unknown profile, a TTS step that raises or a
\* failing mix or mux, leaves the project document on disk as it was, and no
\* record of renders.history on disk has a status other than completed.
C38_FailedRenderLeavesProject ==
    /\ [][RenderFails => disk' = disk]_vars
    /\ [](\A i \in DOMAIN disk.renders.history :
             disk.renders.history[i].status = "completed")

\* the second render of a project failed in the mix after all its segments
\* were made; the first one had completed and left its record
C38_Witness ==
    /\ response.kind = "render"
    /\ ~response.ok
    /\ response.error = "ffmpeg failed"
    /\ renders_started = 2
    /\ rendered
    /\ tpc = "idle"
    /\ Len(disk.renders.history) = 2
    /\ disk.renders.last_render_id = [src |-> "record", n |-> 1]

====
